---------------------------- MODULE Spec2Model ----------------------------
(***************************************************************************)
(* A model of the event-routing core of azul:                              *)
(*   - azul-core/src/window_state.rs: Events::new, get_window_events,      *)
(*     NodesToCheck::new, StyleAndLayoutChanges::need_redraw /             *)
(*     need_regenerate_display_list, CallbacksOfHitTest::call              *)
(*   - azul-core/src/ui_solver.rs: GpuValueCache::synchronize,             *)
(*     LayoutResult::get_hits, ComputedTransform3D                         *)
(*   - src/ui_solver.rs: determine_preferred_width / _height,              *)
(*     get_nearest_positioned_ancestor, new_dom_id                         *)
(*                                                                         *)
(* Encoding conventions.  Option<T>: None is <<>>, Some(x) is <<x>>.       *)
(* HashSet / BTreeSet: a set.  BTreeMap<K, V>: a function whose domain is  *)
(* the set of keys.  Vec<T>: a sequence.                                   *)
(***************************************************************************)
EXTENDS Integers, Sequences, FiniteSets, TLC

VARIABLES
    \* --- the frame loop (window_state.rs:18-63) ---
    previous_window_state,  \* Option<FullWindowState>
    current_window_state,   \* FullWindowState
    events,                 \* the Events of the last frame
    events_input,           \* the two arguments of the last Events::new call
    hit_test,               \* the FullHitTest of the last frame
    nodes_to_check,         \* the NodesToCheck of the last frame
    frame,                  \* number of frames run so far
    \* --- a StyleAndLayoutChanges value and what its queries returned ---
    style_changes,          \* BTreeMap<DomId, RestyleNodes>
    layout_changes,         \* BTreeMap<DomId, RelayoutNodes>
    nodes_that_changed_size,\* BTreeMap<DomId, Vec<NodeId>>
    need_redraw_ret,        \* Option<bool>: the last need_redraw()
    need_regenerate_ret,    \* Option<bool>: the last need_regenerate_display_list()
    \* --- GpuValueCache::synchronize (ui_solver.rs:393-495) ---
    gpu_value_cache,        \* the GpuValueCache of a LayoutResult
    css_transform,          \* per node: Option<ComputedTransform3D> of its CSS
    css_opacity,            \* per node: Option<f32> of its CSS
    last_transform_key,     \* the last TransformKey::unique() handed out
    last_opacity_key,       \* the last OpacityKey::unique() handed out
    gpu_event_changes,      \* what the last synchronize() computed
    stable_syncs,           \* synchronize() calls since the last CSS change (at most 2)
    \* --- CallbacksOfHitTest::call (window_state.rs:581-770) ---
    layout_results,             \* per DomId: hierarchy, non_leaf_nodes, overflowing_nodes
    nodes_with_callbacks,       \* BTreeMap<DomId, Vec<CallbackToCall>>
    call_focused_node,          \* full_window_state.focused_node
    call_cursor,                \* where call() stands: DOM, place in the dispatch order
    blacklisted_event_types,    \* of the DOM call() is in
    invoked,                    \* the callbacks invoked so far, in order
    new_focus_target,           \* Option<FocusTarget>
    nodes_scrolled_in_callbacks,
    modifiable_scroll_states,   \* the &mut ScrollStates
    ret,                        \* the CallCallbacksResult being built
    call_returned,              \* call() has returned `ret`
    \* --- determine_preferred_width / _height (src/ui_solver.rs:493-559, 785-791) ---
    rect_layout,                \* the RectLayout of a node: width, min_width, ...
    preferred_width,            \* Option<WhConstraint>: what determine_preferred_width returned
    preferred_height,           \* Option<WhConstraint>: what determine_preferred_height returned
    \* --- LayoutResult::get_hits (azul-core/src/ui_solver.rs:511-566) ---
    hit_layout_result,          \* the LayoutResult (`self`)
    hits_input,                 \* the arguments of the last get_hits call
    hits_ret,                   \* Option<HitTest>: what the last get_hits returned
    \* --- ComputedTransform3D (azul-core/src/ui_solver.rs:905-1196) ---
    xf_call,                    \* Option: the function called and its arguments
    xf_ret,                     \* Option: what the call returned
    \* --- get_nearest_positioned_ancestor (src/ui_solver.rs:794-813) ---
    anc_arena,                  \* the Arena<DisplayRectangle>: parents and positions
    anc_start_node_id,          \* Option<NodeId>: the argument, once called
    anc_current_node,           \* the local `current_node`
    anc_ret,                    \* Option<Option<NodeId>>: what the call returned
    \* --- new_dom_id (src/ui_solver.rs:23-37) ---
    LAST_DOM_ID,                \* the static AtomicUsize
    dom_id_fetched,             \* per thread: the value its fetch_add gave, until it returns
    dom_ids_issued,             \* the values of all fetch_add calls, in the order of the calls
    dom_ids_returned,           \* <<thread, id>> of every DomId returned, in order
    \* --- WhConstraint::calculate_from_relative_parent (azul-core/src/ui_solver.rs:244-254) ---
    rel_call,                   \* Option: the constraint (`self`) and relative_parent_width of the call
    rel_ret,                    \* Option<f32>: what the call returned
    \* --- StyleAndLayoutChanges::new (window_state.rs:257-424) ---
    sal_input,                  \* the arguments of the call
    sal_ret,                    \* Option<StyleAndLayoutChanges>: what the call returned
    sal_relayout_calls,         \* the calls of relayout_cb, in order: DOM, parent_rect, relayout_nodes
    sal_panicked,               \* the call has panicked
    \* --- DomSolver (src/src/ui_solver.rs:97-217) ---
    ds_solver,                  \* DomSolver::solver, the cassowary Solver
    ds_added_constraints,       \* DomSolver::added_constraints
    ds_root_constraints,        \* DomSolver::root_constraints
    ds_panicked,                \* the DomSolver methods whose unwrap() has panicked
    ds_last_calls               \* the last two DomSolver methods that were called

frame_vars == <<previous_window_state, current_window_state, events,
                events_input, hit_test, nodes_to_check, frame>>

changes_vars == <<style_changes, layout_changes, nodes_that_changed_size,
                  need_redraw_ret, need_regenerate_ret>>

sync_vars == <<gpu_value_cache, css_transform, css_opacity, last_transform_key,
               last_opacity_key, gpu_event_changes, stable_syncs>>

call_vars == <<layout_results, nodes_with_callbacks, call_focused_node, call_cursor,
               blacklisted_event_types, invoked, new_focus_target,
               nodes_scrolled_in_callbacks, modifiable_scroll_states, ret, call_returned>>

pref_vars == <<rect_layout, preferred_width, preferred_height>>

hits_vars == <<hit_layout_result, hits_input, hits_ret>>

\* the variables of the functions that are checked on their own
xf_vars == <<xf_call, xf_ret>>
anc_vars == <<anc_arena, anc_start_node_id, anc_current_node, anc_ret>>
id_vars == <<LAST_DOM_ID, dom_id_fetched, dom_ids_issued, dom_ids_returned>>
rel_vars == <<rel_call, rel_ret>>
sal_vars == <<sal_input, sal_ret, sal_relayout_calls, sal_panicked>>
ds_vars == <<ds_solver, ds_added_constraints, ds_root_constraints, ds_panicked, ds_last_calls>>
pure_vars == <<hits_vars, xf_vars, anc_vars, id_vars, rel_vars, sal_vars, ds_vars>>

vars == <<frame_vars, changes_vars, sync_vars, call_vars, pref_vars, pure_vars>>

not_frame_vars == <<changes_vars, sync_vars, call_vars, pref_vars, pure_vars>>
not_changes_vars == <<frame_vars, sync_vars, call_vars, pref_vars, pure_vars>>
not_sync_vars == <<frame_vars, changes_vars, call_vars, pref_vars, pure_vars>>
not_call_vars == <<frame_vars, changes_vars, sync_vars, pref_vars, pure_vars>>
not_pref_vars == <<frame_vars, changes_vars, sync_vars, call_vars, pure_vars>>
not_hits_vars == <<frame_vars, changes_vars, sync_vars, call_vars, pref_vars,
                   xf_vars, anc_vars, id_vars, rel_vars, sal_vars, ds_vars>>
not_xf_vars == <<frame_vars, changes_vars, sync_vars, call_vars, pref_vars,
                 hits_vars, anc_vars, id_vars, rel_vars, sal_vars, ds_vars>>
not_anc_vars == <<frame_vars, changes_vars, sync_vars, call_vars, pref_vars,
                  hits_vars, xf_vars, id_vars, rel_vars, sal_vars, ds_vars>>
not_id_vars == <<frame_vars, changes_vars, sync_vars, call_vars, pref_vars,
                 hits_vars, xf_vars, anc_vars, rel_vars, sal_vars, ds_vars>>
not_rel_vars == <<frame_vars, changes_vars, sync_vars, call_vars, pref_vars,
    hits_vars, xf_vars, anc_vars, id_vars, sal_vars, ds_vars>>
not_sal_vars == <<frame_vars, changes_vars, sync_vars, call_vars, pref_vars,
    hits_vars, xf_vars, anc_vars, id_vars, rel_vars, ds_vars>>
not_ds_vars == <<frame_vars, changes_vars, sync_vars, call_vars, pref_vars,
    hits_vars, xf_vars, anc_vars, id_vars, rel_vars, sal_vars>>

-----------------------------------------------------------------------------
(* Bounds *)

\* frames run by the frame loop
MaxFrames == 3
\* payload values (positions, sizes, key codes, ...) are drawn from 0..MaxVal
MaxVal == 1
\* DOM ids are 0..MaxDomId, node ids of a DOM are 0..MaxNodeId
MaxDomId == 1
MaxNodeId == 1
\* changed CSS properties recorded for one node by one restyle
MaxProps == 1
\* GPU keys handed out per kind
MaxKey == 4
\* the largest node id of a DOM that callbacks are dispatched in
MaxTreeNode == 2
\* scheduled callbacks (entries of nodes_with_callbacks) of one frame
MaxCallbacks == 2
\* the largest pixel value of a width, height, min-* or max-* property
MaxPx == 2
\* threads that call new_dom_id are 1..MaxThreads
MaxThreads == 2
\* new_dom_id is called at most MaxDomIdCalls times
MaxDomIdCalls == 4
\* the counter of new_dom_id has UsizeBits bits
UsizeBits == 2
\* a transform list has at most MaxTransforms transforms
MaxTransforms == 2
\* a run of frames in which only the scroll amounts change has at most
\* MaxScrollFrames frames
MaxScrollFrames == 5
\* the constraints handed to a DomSolver are 1..MaxConstraints
MaxConstraints == 2
\* added_constraints records at most MaxRecorded constraints
MaxRecorded == 2

Vals == 0..MaxVal
DomIds == 0..MaxDomId
NodeIds == 0..MaxNodeId

None == <<>>
Some(x) == <<x>>
IsSome(o) == o /= <<>>
IsNone(o) == o = <<>>
OptionOf(S) == {None} \cup {Some(x) : x \in S}

\* BTreeMap::insert
ExtendMap(m, d, v) == [x \in DOMAIN m \cup {d} |-> IF x = d THEN v ELSE m[x]]

-----------------------------------------------------------------------------
(* Window state *)

\* CursorPosition: Uninitialized | OutOfWindow | InWindow(p)
Uninitialized == [tag |-> "Uninitialized", p |-> 0]
OutOfWindow == [tag |-> "OutOfWindow", p |-> 0]
InWindow(p) == [tag |-> "InWindow", p |-> p]
CursorPositions == {Uninitialized, OutOfWindow} \cup {InWindow(p) : p \in Vals}

\* WindowPosition: Uninitialized | Initialized(p)
PosUninitialized == [tag |-> "Uninitialized", p |-> 0]
PosInitialized(p) == [tag |-> "Initialized", p |-> p]
WindowPositions == {PosUninitialized} \cup {PosInitialized(p) : p \in Vals}

Themes == {"DarkMode", "LightMode"}

\* BTreeMap<DomId, HitTest>: per hit DOM the node ids of regular_hit_test_nodes
\* (the HitTestItem payload is cloned along unchanged and is not modelled)
EmptyHoveredNodes == [d \in {} |-> {}]
HoveredNodeMaps == UNION {[D -> SUBSET NodeIds] : D \in SUBSET DomIds}

\* DomNodeId { dom, node: AzNodeId }
DomNodeId(d, n) == [dom |-> d, node |-> n]
\* AzNodeId::from_crate_internal(Option<NodeId>)
AzFromCrateInternal(o) == o
\* AzNodeId::into_crate_internal() -> Option<NodeId>
AzIntoCrateInternal(az) == az
DomNodeIds == {DomNodeId(d, AzFromCrateInternal(Some(n))) : d \in DomIds, n \in NodeIds}

\* FullWindowState::default(): the window state before the first frame
DefaultWindowState ==
    [ has_focus |-> TRUE,
      is_about_to_close |-> FALSE,
      dimensions |-> 0,
      hidpi_factor |-> 0,
      system_hidpi_factor |-> 0,
      position |-> PosUninitialized,
      cursor_position |-> Uninitialized,
      left_down |-> FALSE,
      right_down |-> FALSE,
      middle_down |-> FALSE,
      scroll_x |-> None,
      scroll_y |-> None,
      current_virtual_keycode |-> None,
      current_char |-> None,
      hovered_file |-> None,
      dropped_file |-> None,
      theme |-> "LightMode",
      hovered_nodes |-> EmptyHoveredNodes,
      focused_node |-> None ]

\* MouseState::mouse_down()
MouseDown(ws) == ws.left_down \/ ws.right_down \/ ws.middle_down

-----------------------------------------------------------------------------
(* get_window_events: window_state.rs:773-923 *)

WindowEventsIf(cond, ev) == IF cond THEN {ev} ELSE {}

FocusWindowEvents(cur, prev) ==
    IF cur.has_focus /= prev.has_focus
    THEN (IF cur.has_focus THEN {"FocusReceived"} ELSE {"FocusLost"})
    ELSE {}

ResizeWindowEvents(cur, prev) ==
    WindowEventsIf(cur.dimensions /= prev.dimensions
                   \/ cur.hidpi_factor /= prev.hidpi_factor
                   \/ cur.system_hidpi_factor /= prev.system_hidpi_factor, "Resized")

MoveWindowEvents(cur, prev) ==
    IF cur.position.tag = "Initialized" /\ prev.position.tag = "Initialized"
    THEN WindowEventsIf(prev.position.p /= cur.position.p, "Moved")
    ELSE WindowEventsIf(cur.position.tag = "Initialized"
                        /\ prev.position.tag = "Uninitialized", "Moved")

CloseWindowEvents(cur) ==
    WindowEventsIf(cur.is_about_to_close, "CloseRequested")

\* (mutation of CursorWindowEvents: a move inside the window also enters it)
CursorWindowEventsEnterOnMove(cur, prev) ==
    LET a == prev.cursor_position
        b == cur.cursor_position
    IN  IF a.tag = "InWindow" /\ b.tag \in {"OutOfWindow", "Uninitialized"}
        THEN {"MouseLeave"}
        ELSE IF b.tag = "InWindow" /\ a /= b
        THEN {"MouseEnter"} \cup WindowEventsIf(a.tag = "InWindow", "MouseOver")
        ELSE {}

CursorWindowEvents(cur, prev) ==
    LET a == prev.cursor_position
        b == cur.cursor_position
    IN  IF a.tag = "InWindow" /\ b.tag \in {"OutOfWindow", "Uninitialized"}
        THEN {"MouseLeave"}
        ELSE IF a.tag \in {"OutOfWindow", "Uninitialized"} /\ b.tag = "InWindow"
        THEN {"MouseEnter"}
        ELSE IF a.tag = "InWindow" /\ b.tag = "InWindow"
        THEN WindowEventsIf(a.p /= b.p, "MouseOver")
        ELSE {}

\* (mutation of ButtonWindowEvents: MouseDown reported while a button is held)
ButtonWindowEventsHeld(cur, prev) ==
    WindowEventsIf(MouseDown(cur), "MouseDown")
    \cup WindowEventsIf(cur.left_down /\ ~prev.left_down, "LeftMouseDown")
    \cup WindowEventsIf(cur.right_down /\ ~prev.right_down, "RightMouseDown")
    \cup WindowEventsIf(cur.middle_down /\ ~prev.middle_down, "MiddleMouseDown")
    \cup WindowEventsIf(MouseDown(prev) /\ ~MouseDown(cur), "MouseUp")
    \cup WindowEventsIf(prev.left_down /\ ~cur.left_down, "LeftMouseUp")
    \cup WindowEventsIf(prev.right_down /\ ~cur.right_down, "RightMouseUp")
    \cup WindowEventsIf(prev.middle_down /\ ~cur.middle_down, "MiddleMouseUp")

\* (mutation of ButtonWindowEvents: MouseUp reported for every released button)
ButtonWindowEventsAnyRelease(cur, prev) ==
    WindowEventsIf(MouseDown(cur) /\ ~MouseDown(prev), "MouseDown")
    \cup WindowEventsIf(cur.left_down /\ ~prev.left_down, "LeftMouseDown")
    \cup WindowEventsIf(cur.right_down /\ ~prev.right_down, "RightMouseDown")
    \cup WindowEventsIf(cur.middle_down /\ ~prev.middle_down, "MiddleMouseDown")
    \cup WindowEventsIf(\/ prev.left_down /\ ~cur.left_down
                        \/ prev.right_down /\ ~cur.right_down
                        \/ prev.middle_down /\ ~cur.middle_down, "MouseUp")
    \cup WindowEventsIf(prev.left_down /\ ~cur.left_down, "LeftMouseUp")
    \cup WindowEventsIf(prev.right_down /\ ~cur.right_down, "RightMouseUp")
    \cup WindowEventsIf(prev.middle_down /\ ~cur.middle_down, "MiddleMouseUp")

\* (mutation of ButtonWindowEvents: MouseDown for any change of the buttons
\* that leaves one down)
ButtonWindowEventsDownOnChange(cur, prev) ==
    WindowEventsIf(MouseDown(cur)
                   /\ <<cur.left_down, cur.right_down, cur.middle_down>>
                          /= <<prev.left_down, prev.right_down, prev.middle_down>>, "MouseDown")
    \cup WindowEventsIf(cur.left_down /\ ~prev.left_down, "LeftMouseDown")
    \cup WindowEventsIf(cur.right_down /\ ~prev.right_down, "RightMouseDown")
    \cup WindowEventsIf(cur.middle_down /\ ~prev.middle_down, "MiddleMouseDown")
    \cup WindowEventsIf(MouseDown(prev) /\ ~MouseDown(cur), "MouseUp")
    \cup WindowEventsIf(prev.left_down /\ ~cur.left_down, "LeftMouseUp")
    \cup WindowEventsIf(prev.right_down /\ ~cur.right_down, "RightMouseUp")
    \cup WindowEventsIf(prev.middle_down /\ ~cur.middle_down, "MiddleMouseUp")

ButtonWindowEvents(cur, prev) ==
    WindowEventsIf(MouseDown(cur) /\ ~MouseDown(prev), "MouseDown")
    \cup WindowEventsIf(cur.left_down /\ ~prev.left_down, "LeftMouseDown")
    \cup WindowEventsIf(cur.right_down /\ ~prev.right_down, "RightMouseDown")
    \cup WindowEventsIf(cur.middle_down /\ ~prev.middle_down, "MiddleMouseDown")
    \cup WindowEventsIf(MouseDown(prev) /\ ~MouseDown(cur), "MouseUp")
    \cup WindowEventsIf(prev.left_down /\ ~cur.left_down, "LeftMouseUp")
    \cup WindowEventsIf(prev.right_down /\ ~cur.right_down, "RightMouseUp")
    \cup WindowEventsIf(prev.middle_down /\ ~cur.middle_down, "MiddleMouseUp")

\* (mutation of ScrollWindowEvents: ScrollStart in every frame that scrolls)
ScrollWindowEventsStartAlways(cur, prev) ==
    LET is_scroll_previous == IsSome(prev.scroll_x) \/ IsSome(prev.scroll_y)
        is_scroll_now == IsSome(cur.scroll_x) \/ IsSome(cur.scroll_y)
    IN  WindowEventsIf(is_scroll_now, "ScrollStart")
        \cup WindowEventsIf(is_scroll_now, "Scroll")
        \cup WindowEventsIf(is_scroll_previous /\ ~is_scroll_now, "ScrollEnd")

ScrollWindowEvents(cur, prev) ==
    LET is_scroll_previous == IsSome(prev.scroll_x) \/ IsSome(prev.scroll_y)
        is_scroll_now == IsSome(cur.scroll_x) \/ IsSome(cur.scroll_y)
    IN  WindowEventsIf(~is_scroll_previous /\ is_scroll_now, "ScrollStart")
        \cup WindowEventsIf(is_scroll_now, "Scroll")
        \cup WindowEventsIf(is_scroll_previous /\ ~is_scroll_now, "ScrollEnd")

KeyboardWindowEvents(cur, prev) ==
    WindowEventsIf(IsNone(prev.current_virtual_keycode)
                   /\ IsSome(cur.current_virtual_keycode), "VirtualKeyDown")
    \cup WindowEventsIf(IsSome(cur.current_char), "TextInput")
    \cup WindowEventsIf(IsSome(prev.current_virtual_keycode)
                        /\ IsNone(cur.current_virtual_keycode), "VirtualKeyUp")

FileWindowEvents(cur, prev) ==
    WindowEventsIf(IsNone(prev.hovered_file) /\ IsSome(cur.hovered_file), "HoveredFile")
    \cup (IF IsSome(prev.hovered_file) /\ IsNone(cur.hovered_file)
          THEN (IF IsSome(cur.dropped_file) THEN {"DroppedFile"}
                ELSE {"HoveredFileCancelled"})
          ELSE {})

ThemeWindowEvents(cur, prev) ==
    WindowEventsIf(cur.theme /= prev.theme, "ThemeChanged")

\* (mutation of get_window_events: without a previous state the current one
\* is compared with the default window state)
get_window_events_against_default(cur, previous) ==
    LET prev == IF IsNone(previous) THEN DefaultWindowState ELSE previous[1]
    IN  FocusWindowEvents(cur, prev)
        \cup ResizeWindowEvents(cur, prev)
        \cup MoveWindowEvents(cur, prev)
        \cup CloseWindowEvents(cur)
        \cup CursorWindowEvents(cur, prev)
        \cup ButtonWindowEvents(cur, prev)
        \cup ScrollWindowEvents(cur, prev)
        \cup KeyboardWindowEvents(cur, prev)
        \cup FileWindowEvents(cur, prev)
        \cup ThemeWindowEvents(cur, prev)

\* previous_window_state is an Option: no previous state, no events
get_window_events(cur, previous) ==
    IF IsNone(previous) THEN {}
    ELSE LET prev == previous[1]
         IN  FocusWindowEvents(cur, prev)
             \cup ResizeWindowEvents(cur, prev)
             \cup MoveWindowEvents(cur, prev)
             \cup CloseWindowEvents(cur)
             \cup CursorWindowEvents(cur, prev)
             \cup ButtonWindowEvents(cur, prev)
             \cup ScrollWindowEvents(cur, prev)
             \cup KeyboardWindowEvents(cur, prev)
             \cup FileWindowEvents(cur, prev)
             \cup ThemeWindowEvents(cur, prev)

\* WindowEventFilter::to_hover_event_filter: the window events that also exist
\* as hover events keep their name; the window-only events have none
HoverLiftable ==
    {"MouseOver", "MouseDown", "LeftMouseDown", "RightMouseDown", "MiddleMouseDown",
     "MouseUp", "LeftMouseUp", "RightMouseUp", "MiddleMouseUp",
     "Scroll", "ScrollStart", "ScrollEnd", "TextInput", "VirtualKeyDown",
     "VirtualKeyUp", "HoveredFile", "DroppedFile", "HoveredFileCancelled"}

\* HoverEventFilter::to_focus_event_filter: the file events have no focus event
FocusLiftable == HoverLiftable \ {"HoveredFile", "DroppedFile", "HoveredFileCancelled"}

get_hover_events(input) == input \cap HoverLiftable

get_focus_events(input) == input \cap FocusLiftable

-----------------------------------------------------------------------------
(* Events::new: window_state.rs:96-143 *)

EventsOldFocusNode(previous) ==
    IF IsNone(previous) THEN None ELSE previous[1].focused_node

EventsOldHitNodeIds(previous) ==
    IF IsNone(previous) THEN EmptyHoveredNodes ELSE previous[1].hovered_nodes

\* (mutation of EventsNew: hover and focus events are only the lifted window
\* events)
EventsNewLiftedOnly(cur, previous) ==
    LET window0 == get_window_events(cur, previous)
        hover0 == get_hover_events(window0)
        focus0 == get_focus_events(hover0)
        window1 == IF IsSome(previous) /\ previous[1].theme /= cur.theme
                   THEN window0 \cup {"ThemeChanged"} ELSE window0
    IN  [ window_events |-> window1,
          hover_events |-> hover0,
          focus_events |-> focus0,
          old_hit_node_ids |-> EventsOldHitNodeIds(previous),
          old_focus_node |-> EventsOldFocusNode(previous),
          current_window_state_mouse_is_down |-> MouseDown(cur),
          previous_window_state_mouse_is_down |->
              IF IsNone(previous) THEN FALSE ELSE MouseDown(previous[1]),
          event_was_mouse_down |-> "MouseDown" \in window0,
          event_was_mouse_leave |-> "MouseLeave" \in window0,
          event_was_mouse_release |-> "MouseUp" \in window0 ]

EventsNew(cur, previous) ==
    LET window0 == get_window_events(cur, previous)
        hover0 == get_hover_events(window0)
        focus0 == get_focus_events(hover0)
        old_focus_node == EventsOldFocusNode(previous)
        window1 == IF IsSome(previous) /\ previous[1].theme /= cur.theme
                   THEN window0 \cup {"ThemeChanged"} ELSE window0
        hover1 == IF IsSome(previous) /\ cur.hovered_nodes /= previous[1].hovered_nodes
                  THEN hover0 \cup {"MouseLeave", "MouseEnter"} ELSE hover0
        focus1 == IF cur.focused_node /= old_focus_node
                  THEN focus0 \cup {"FocusReceived", "FocusLost"} ELSE focus0
    IN  [ window_events |-> window1,
          hover_events |-> hover1,
          focus_events |-> focus1,
          old_hit_node_ids |-> EventsOldHitNodeIds(previous),
          old_focus_node |-> old_focus_node,
          current_window_state_mouse_is_down |-> MouseDown(cur),
          previous_window_state_mouse_is_down |->
              IF IsNone(previous) THEN FALSE ELSE MouseDown(previous[1]),
          event_was_mouse_down |-> "MouseDown" \in window0,
          event_was_mouse_leave |-> "MouseLeave" \in window0,
          event_was_mouse_release |-> "MouseUp" \in window0 ]

\* Events::is_empty
EventsIsEmpty(e) ==
    e.window_events = {} /\ e.hover_events = {} /\ e.focus_events = {}

-----------------------------------------------------------------------------
(* NodesToCheck::new: window_state.rs:173-219 *)

\* FullHitTest { hovered_nodes, focused_node: Option<(DomId, NodeId)> }
EmptyHitTest == [hovered_nodes |-> EmptyHoveredNodes, focused_node |-> None]

\* hit_test.focused_node.map(|o| DomNodeId { dom: o.0, node: from_crate_internal(Some(o.1)) })
HitFocusToDomNodeId(o) ==
    IF IsNone(o) THEN None
    ELSE Some(DomNodeId(o[1][1], AzFromCrateInternal(Some(o[1][2]))))

\* the entries of a per-DOM map whose node map is not empty
DropEmptyDoms(m) == [d \in {x \in DOMAIN m : m[x] /= {}} |-> m[d]]

\* (mutation of NewHitNodeIds: the mouse-leave frame keeps the hit nodes)
NewHitNodeIdsKeptOnLeave(hit, ev) == hit.hovered_nodes

NewHitNodeIds(hit, ev) ==
    IF ev.event_was_mouse_leave THEN EmptyHoveredNodes ELSE hit.hovered_nodes

\* (mutation of NewFocusNode: the hit test's focus is taken in every frame)
NewFocusNodeEveryFrame(hit, ev) == HitFocusToDomNodeId(hit.focused_node)

NewFocusNode(hit, ev) ==
    IF ev.event_was_mouse_down \/ ev.event_was_mouse_release
    THEN HitFocusToDomNodeId(hit.focused_node)
    ELSE ev.old_focus_node

\* filter_map over new_hit_node_ids; `events.old_hit_node_ids.get(dom_id)?`
\* leaves out every DOM that old_hit_node_ids has no entry for
OnMouseEnterNodes(new_hit_node_ids, old_hit_node_ids) ==
    DropEmptyDoms(
        [d \in (DOMAIN new_hit_node_ids) \cap (DOMAIN old_hit_node_ids) |->
            {n \in new_hit_node_ids[d] : n \notin old_hit_node_ids[d]}])

OnMouseLeaveNodes(new_hit_node_ids, old_hit_node_ids) ==
    DropEmptyDoms(
        [d \in DOMAIN old_hit_node_ids |->
            {n \in old_hit_node_ids[d] :
                ~(d \in DOMAIN new_hit_node_ids /\ n \in new_hit_node_ids[d])}])

NodesToCheckNew(hit, ev) ==
    LET new_hit_node_ids == NewHitNodeIds(hit, ev)
    IN  [ new_hit_node_ids |-> new_hit_node_ids,
          old_hit_node_ids |-> ev.old_hit_node_ids,
          onmouseenter_nodes |-> OnMouseEnterNodes(new_hit_node_ids, ev.old_hit_node_ids),
          onmouseleave_nodes |-> OnMouseLeaveNodes(new_hit_node_ids, ev.old_hit_node_ids),
          old_focus_node |-> ev.old_focus_node,
          new_focus_node |-> NewFocusNode(hit, ev),
          current_window_state_mouse_is_down |-> ev.current_window_state_mouse_is_down ]

\* NodesToCheck::empty(mouse_down)
NodesToCheckEmpty(mouse_down) ==
    [ new_hit_node_ids |-> EmptyHoveredNodes,
      old_hit_node_ids |-> EmptyHoveredNodes,
      onmouseenter_nodes |-> EmptyHoveredNodes,
      onmouseleave_nodes |-> EmptyHoveredNodes,
      old_focus_node |-> None,
      new_focus_node |-> None,
      current_window_state_mouse_is_down |-> mouse_down ]

\* the (dom, node) pairs of a per-DOM map
Pairs(m) == UNION {{<<d, n>> : n \in m[d]} : d \in DOMAIN m}

-----------------------------------------------------------------------------
(* StyleAndLayoutChanges: window_state.rs:245-441 *)

\* A ChangedCssProperty is modelled by the CssPropertyType of its previous_prop
\* and current_prop (a changed property keeps its type).
GpuOnlyPropertyTypes == {"Opacity", "Transform"}
RelayoutPropertyTypes == {"Width"}
StylePropertyTypes == {"Opacity", "Transform", "TextColor"}

\* CssPropertyType::is_gpu_only_property
is_gpu_only_property(t) == t \in GpuOnlyPropertyTypes
\* CssPropertyType::can_trigger_relayout
can_trigger_relayout(t) == t \in RelayoutPropertyTypes

EmptyChanges == [d \in {} |-> [n \in {} |-> <<>>]]

\* non-empty Vec<ChangedCssProperty> of at most MaxProps properties
PropVecs(types) == UNION {[1..k -> types] : k \in 1..MaxProps}

\* BTreeMap<DomId, BTreeMap<NodeId, Vec<ChangedCssProperty>>> as
\* StyleAndLayoutChanges::new builds it: an entry is made when a non-empty
\* vector is appended to it
ChangeMaps(types) ==
    UNION {[D -> UNION {[N -> PropVecs(types)] : N \in (SUBSET NodeIds) \ {{}}}] :
            D \in SUBSET DomIds}

\* nodes_that_changed_size: for some DOMs of layout_changes the non-empty
\* Vec<NodeId> that relayout_cb returned (node ids in ascending order)
SetToVec(S) ==
    LET RECURSIVE ToVec(_)
        ToVec(T) == IF T = {} THEN <<>>
                    ELSE LET m == CHOOSE x \in T : \A y \in T : x <= y
                         IN  <<m>> \o ToVec(T \ {m})
    IN  ToVec(S)

ChangedSizeMaps(layout) ==
    UNION {[D -> {SetToVec(N) : N \in (SUBSET NodeIds) \ {{}}}] :
            D \in SUBSET DOMAIN layout}

\* all changed properties recorded in a change map
ChangedProps(m) ==
    UNION {UNION {{m[d][n][i] : i \in DOMAIN m[d][n]} : n \in DOMAIN m[d]} : d \in DOMAIN m}

\* BTreeMap::is_empty
MapIsEmpty(m) == DOMAIN m = {}

\* StyleAndLayoutChanges::need_redraw
need_redraw(style, layout, sizes) ==
    ~MapIsEmpty(style) /\ ~MapIsEmpty(layout) /\ ~MapIsEmpty(sizes)

\* StyleAndLayoutChanges::need_regenerate_display_list
need_regenerate_display_list(style, layout, sizes) ==
    IF ~need_redraw(style, layout, sizes) THEN FALSE
    ELSE \A d \in DOMAIN style : \A n \in DOMAIN style[d] :
            \A i \in DOMAIN style[d][n] : is_gpu_only_property(style[d][n][i])

ChangesIdle ==
    /\ style_changes = EmptyChanges
    /\ layout_changes = EmptyChanges
    /\ nodes_that_changed_size = EmptyChanges
    /\ need_redraw_ret = None
    /\ need_regenerate_ret = None

\* a StyleAndLayoutChanges value as StyleAndLayoutChanges::new returns it
ChangesInput ==
    /\ style_changes \in ChangeMaps(StylePropertyTypes)
    /\ layout_changes \in ChangeMaps(RelayoutPropertyTypes)
    /\ nodes_that_changed_size \in ChangedSizeMaps(layout_changes)
    /\ need_redraw_ret = None
    /\ need_regenerate_ret = None

CallNeedRedraw ==
    /\ need_redraw_ret' =
           Some(need_redraw(style_changes, layout_changes, nodes_that_changed_size))
    /\ UNCHANGED <<style_changes, layout_changes, nodes_that_changed_size,
                   need_regenerate_ret>>
    /\ UNCHANGED not_changes_vars

CallNeedRegenerateDisplayList ==
    /\ need_regenerate_ret' =
           Some(need_regenerate_display_list(style_changes, layout_changes,
                                             nodes_that_changed_size))
    /\ UNCHANGED <<style_changes, layout_changes, nodes_that_changed_size,
                   need_redraw_ret>>
    /\ UNCHANGED not_changes_vars

ChangesNext ==
    \/ CallNeedRedraw
    \/ CallNeedRegenerateDisplayList

-----------------------------------------------------------------------------
(* GpuValueCache::synchronize: ui_solver.rs:393-495 *)

\* The function in the source is unfinished: it computes the transform and
\* opacity events of every node and never assigns to `self`; the fields of the
\* returned GpuEventChanges are left blank and are taken to be the two event
\* lists it has just computed.  A computed transform or opacity is a value of
\* Vals: only whether it is present is read.

\* GpuValueCache::empty()
EmptyGpuValueCache ==
    [ transform_keys |-> [n \in {} |-> 0],
      current_transform_values |-> [n \in {} |-> 0],
      current_opacity_keys |-> [n \in {} |-> 0],
      current_opacity_values |-> [n \in {} |-> 0] ]

\* BTreeMap::get
MapGet(m, k) == IF k \in DOMAIN m THEN Some(m[k]) ELSE None

\* GpuTransformKeyEvent / GpuOpacityKeyEvent; `node` is not part of the event,
\* it records which node the event was computed for
GpuEvent(kind, key, old, new, n) ==
    [kind |-> kind, key |-> key, old |-> old, value |-> new, node |-> n]

\* the match on (existing, current) of one node; `fresh` is the key that
\* unique() returns when it is called for this node
GpuKeyEvent(keys, values, current, n, fresh) ==
    LET existing == MapGet(values, n)
        key == MapGet(keys, n)
    IN  IF IsNone(existing) /\ IsNone(current) THEN None
        ELSE IF IsNone(existing)
        THEN Some(GpuEvent("Added", fresh, None, current, n))
        ELSE IF IsSome(current)
        THEN (IF IsNone(key) THEN None
              ELSE Some(GpuEvent("Changed", key[1], existing, current, n)))
        ELSE (IF IsNone(key) THEN None
              ELSE Some(GpuEvent("Removed", key[1], existing, None, n)))

\* the nodes for which the match calls unique()
NodesAdded(values, css) == {n \in NodeIds : n \notin DOMAIN values /\ IsSome(css[n])}

\* (0..len).filter_map(..).collect(): the events in node order
GpuKeyEvents(keys, values, css, fresh) ==
    LET RECURSIVE Collect(_)
        Collect(n) ==
            IF n > MaxNodeId THEN <<>>
            ELSE GpuKeyEvent(keys, values, css[n], n,
                             IF n \in DOMAIN fresh THEN fresh[n] ELSE 0)
                 \o Collect(n + 1)
    IN  Collect(0)

\* unique() is called once per added node, the nodes being visited in parallel:
\* the next keys of the counter, in any order
FreshKeys(added, last) ==
    {f \in [added -> (last + 1)..(last + Cardinality(added))] :
        \A a, b \in added : a /= b => f[a] /= f[b]}

NoGpuEventChanges == [transform_key_changes |-> <<>>, opacity_key_changes |-> <<>>]

SyncIdle ==
    /\ gpu_value_cache = EmptyGpuValueCache
    /\ css_transform = [n \in NodeIds |-> None]
    /\ css_opacity = [n \in NodeIds |-> None]
    /\ last_transform_key = 0
    /\ last_opacity_key = 0
    /\ gpu_event_changes = NoGpuEventChanges
    /\ stable_syncs = 0

\* the CSS of one node changes its transform or its opacity
RestyleTransform ==
    /\ \E n \in NodeIds, t \in OptionOf(Vals) :
        /\ t /= css_transform[n]
        /\ css_transform' = [css_transform EXCEPT ![n] = t]
    /\ stable_syncs' = 0
    /\ UNCHANGED <<gpu_value_cache, css_opacity, last_transform_key, last_opacity_key,
                   gpu_event_changes>>
    /\ UNCHANGED not_sync_vars

RestyleOpacity ==
    /\ \E n \in NodeIds, o \in OptionOf(Vals) :
        /\ o /= css_opacity[n]
        /\ css_opacity' = [css_opacity EXCEPT ![n] = o]
    /\ stable_syncs' = 0
    /\ UNCHANGED <<gpu_value_cache, css_transform, last_transform_key, last_opacity_key,
                   gpu_event_changes>>
    /\ UNCHANGED not_sync_vars

Synchronize ==
    LET added_t == NodesAdded(gpu_value_cache.current_transform_values, css_transform)
        added_o == NodesAdded(gpu_value_cache.current_opacity_values, css_opacity)
    IN  /\ last_transform_key + Cardinality(added_t) <= MaxKey
        /\ last_opacity_key + Cardinality(added_o) <= MaxKey
        /\ \E ft \in FreshKeys(added_t, last_transform_key),
              fo \in FreshKeys(added_o, last_opacity_key) :
            gpu_event_changes' =
                [ transform_key_changes |->
                      GpuKeyEvents(gpu_value_cache.transform_keys,
                                   gpu_value_cache.current_transform_values,
                                   css_transform, ft),
                  opacity_key_changes |->
                      GpuKeyEvents(gpu_value_cache.current_opacity_keys,
                                   gpu_value_cache.current_opacity_values,
                                   css_opacity, fo) ]
        /\ last_transform_key' = last_transform_key + Cardinality(added_t)
        /\ last_opacity_key' = last_opacity_key + Cardinality(added_o)
        /\ stable_syncs' = IF stable_syncs < 2 THEN stable_syncs + 1 ELSE 2
        /\ UNCHANGED <<gpu_value_cache, css_transform, css_opacity>>
        /\ UNCHANGED not_sync_vars

SyncNext ==
    \/ RestyleTransform
    \/ RestyleOpacity
    \/ Synchronize

-----------------------------------------------------------------------------
(* CallbacksOfHitTest::call: window_state.rs:581-770 *)

\* A styled DOM of MaxTreeNode + 1 nodes: node 0 is the root and `parent`
\* gives the parent of every other node, which has a smaller id.
TreeNodeIds == 0..MaxTreeNode
Hierarchies == {p \in [1..MaxTreeNode -> TreeNodeIds] : \A n \in 1..MaxTreeNode : p[n] < n}

\* az_children: the children of a node in sibling order
az_children(parent, n) == SetToVec({c \in DOMAIN parent : parent[c] = n})

NodeDepth(parent, n) ==
    LET RECURSIVE Up(_)
        Up(m) == IF m = 0 THEN 0 ELSE 1 + Up(parent[m])
    IN  Up(n)

\* is `a` a proper ancestor of `d`
IsProperAncestor(parent, a, d) ==
    LET RECURSIVE Walk(_)
        Walk(m) == IF m = 0 THEN FALSE
                   ELSE IF parent[m] = a THEN TRUE
                   ELSE Walk(parent[m])
    IN  Walk(d)

\* styled_dom.non_leaf_nodes: the nodes that have children, sorted by depth
NonLeafNodeOrders(parent) ==
    LET nl == {n \in TreeNodeIds : \E c \in DOMAIN parent : parent[c] = n}
    IN  {s \in [1..Cardinality(nl) -> nl] :
            /\ \A i, j \in DOMAIN s : i /= j => s[i] /= s[j]
            /\ \A i, j \in DOMAIN s :
                i < j => NodeDepth(parent, s[i]) <= NodeDepth(parent, s[j])}

\* the hover filters that callbacks are registered for
CallEventFilters == {"MouseDown", "MouseUp"}

\* CallbackToCall: the node and the event filter of its CallbackData
CallbackToCall(n, ev) == [node_id |-> n, event |-> ev]

\* the Vec<CallbackToCall> of a DOM as CallbacksOfHitTest::new pushes it:
\* node after node, the callbacks of one node in the order they are registered
CallbackVecs(len) ==
    {v \in [1..len -> {CallbackToCall(n, ev) : n \in TreeNodeIds, ev \in CallEventFilters}] :
        \A i, j \in 1..len : i < j => v[i].node_id <= v[j].node_id}

\* `callbacks`: the Vec collected into a BTreeMap keyed by node id, which
\* keeps for every node the last of its entries (as an index into the Vec)
CollectCallbacks(vec) ==
    [n \in {vec[i].node_id : i \in DOMAIN vec} |->
        CHOOSE i \in DOMAIN vec :
            /\ vec[i].node_id = n
            /\ \A j \in DOMAIN vec : vec[j].node_id = n => j <= i]

Reverse(s) == [i \in 1..Len(s) |-> s[Len(s) + 1 - i]]

\* (mutation of ParentsInVisitOrder: non_leaf_nodes front to back)
ParentsShallowestFirst(non_leaf_nodes) == non_leaf_nodes

\* non_leaf_nodes.as_ref().iter().rev()
ParentsInVisitOrder(non_leaf_nodes) == Reverse(non_leaf_nodes)

\* the nodes whose callback call() reaches in a DOM, in the order it reaches
\* them: the children of every parent, then the root
DispatchOrder(lr, callbacks) ==
    LET parents == ParentsInVisitOrder(lr.non_leaf_nodes)
        RECURSIVE Visit(_)
        Visit(i) ==
            IF i > Len(parents) THEN <<>>
            ELSE SelectSeq(az_children(lr.node_hierarchy, parents[i]),
                           LAMBDA c : c \in DOMAIN callbacks)
                 \o Visit(i + 1)
    IN  Visit(1) \o (IF 0 \in DOMAIN callbacks THEN <<0>> ELSE <<>>)

\* self.nodes_with_callbacks.iter_mut(): the DOMs in ascending order
DomsInOrder(nwc) == SetToVec(DOMAIN nwc)

\* the callback that call() stands at
CursorAt(di, pos, aborted) == [dom_idx |-> di, pos |-> pos, aborted |-> aborted]

\* From place `pos` of DOM number `di` with the blacklist `bl`, the next
\* callback that is invoked: blacklisted ones are skipped, every DOM starts
\* with an empty blacklist, and a DOM without a layout result ends the call.
Advance(lrs, nwc, di0, pos0, bl0) ==
    LET doms == DomsInOrder(nwc)
        RECURSIVE Go(_, _, _)
        Go(di, pos, bl) ==
            IF di > Len(doms) THEN [cursor |-> CursorAt(di, 1, FALSE), bl |-> {}]
            ELSE IF doms[di] \notin DOMAIN lrs
            THEN [cursor |-> CursorAt(di, 1, TRUE), bl |-> bl]
            ELSE LET vec == nwc[doms[di]]
                     callbacks == CollectCallbacks(vec)
                     order == DispatchOrder(lrs[doms[di]], callbacks)
                 IN  IF pos > Len(order) THEN Go(di + 1, 1, {})
                     ELSE IF vec[callbacks[order[pos]]].event \in bl
                     THEN Go(di, pos + 1, bl)
                     ELSE [cursor |-> CursorAt(di, pos, FALSE), bl |-> bl]
    IN  Go(di0, pos0, bl0)

UpdateScreens ==
    {"DoNothing", "RegenerateStyledDomForCurrentWindow", "RegenerateStyledDomForAllWindows"}

\* (mutation of FoldUpdateScreen: the last returned value wins)
FoldUpdateScreenLastWins(acc, callback_return) == callback_return

\* the match on callback_return (lines 661-671 and 718-728)
FoldUpdateScreen(acc, callback_return) ==
    IF callback_return = "RegenerateStyledDomForCurrentWindow"
    THEN (IF acc = "DoNothing" THEN callback_return ELSE acc)
    ELSE IF callback_return = "RegenerateStyledDomForAllWindows"
    THEN (IF acc \in {"DoNothing", "RegenerateStyledDomForCurrentWindow"}
          THEN callback_return ELSE acc)
    ELSE acc

\* (mutation of BlacklistAfter: stop_propagation is ignored)
BlacklistNever(bl, event, stop_propagation) == bl

\* if stop_propagation { blacklisted_event_types.insert(callback_data.event) }
BlacklistAfter(bl, event, stop_propagation) ==
    IF stop_propagation THEN bl \cup {event} ELSE bl

\* FocusTarget: a node of a DOM by id, or NoFocus
FocusTargetId(d, n) == [kind |-> "Id", dom |-> d, node |-> n]
FocusTargetNoFocus == [kind |-> "NoFocus", dom |-> 0, node |-> 0]

\* new_focus_target.and_then(|ft| ft.resolve(&layout_results).ok()?)
ResolveFocusTarget(target, lrs) ==
    IF IsNone(target) THEN None
    ELSE IF target[1].kind = "NoFocus" THEN None
    ELSE IF target[1].dom \in DOMAIN lrs /\ target[1].node \in TreeNodeIds
    THEN Some(DomNodeId(target[1].dom, Some(target[1].node)))
    ELSE None

\* what one callback does with its CallbackInfo and what it returns
CallbackOutcome(stop, callback_return, focus, scroll) ==
    [stop_propagation |-> stop, ret |-> callback_return, new_focus |-> focus,
     scroll |-> scroll]

EmptyScrollMap == [k \in {} |-> 0]

InitialCallCallbacksResult ==
    [should_scroll_render |-> FALSE, callbacks_update_screen |-> "DoNothing",
     update_focused_node |-> None]

\* no call() is under way
CallIdle ==
    /\ layout_results = [d \in {} |-> 0]
    /\ nodes_with_callbacks = [d \in {} |-> <<>>]
    /\ call_focused_node = None
    /\ call_cursor = CursorAt(1, 1, FALSE)
    /\ blacklisted_event_types = {}
    /\ invoked = <<>>
    /\ new_focus_target = None
    /\ nodes_scrolled_in_callbacks = EmptyScrollMap
    /\ modifiable_scroll_states = EmptyScrollMap
    /\ ret = InitialCallCallbacksResult
    /\ call_returned = TRUE

\* lines 596-611: call() has been entered with its arguments
CallEntered ==
    /\ call_cursor = Advance(layout_results, nodes_with_callbacks, 1, 1, {}).cursor
    /\ blacklisted_event_types = {}
    /\ invoked = <<>>
    /\ new_focus_target = None
    /\ nodes_scrolled_in_callbacks = EmptyScrollMap
    /\ ret = InitialCallCallbacksResult
    /\ call_returned = FALSE

\* lines 629-680 and 686-737: the callback at the cursor is invoked, its
\* outcome is folded into `ret`, and the traversal moves on to the next
\* callback that is not blacklisted
InvokeCallback(o) ==
    /\ ~call_returned
    /\ ~call_cursor.aborted
    /\ call_cursor.dom_idx <= Len(DomsInOrder(nodes_with_callbacks))
    /\ LET dom_id == DomsInOrder(nodes_with_callbacks)[call_cursor.dom_idx]
           vec == nodes_with_callbacks[dom_id]
           callbacks == CollectCallbacks(vec)
           node_id == DispatchOrder(layout_results[dom_id], callbacks)[call_cursor.pos]
           callback_data == vec[callbacks[node_id]]
           bl == BlacklistAfter(blacklisted_event_types, callback_data.event,
                                o.stop_propagation)
           next == Advance(layout_results, nodes_with_callbacks,
                           call_cursor.dom_idx, call_cursor.pos + 1, bl)
       IN  /\ invoked' = Append(invoked,
                  [dom |-> dom_id, node_id |-> node_id, entry |-> callbacks[node_id],
                   event |-> callback_data.event,
                   stop_propagation |-> o.stop_propagation, ret |-> o.ret])
           /\ ret' = [ret EXCEPT !.callbacks_update_screen = FoldUpdateScreen(@, o.ret)]
           /\ new_focus_target' = IF IsSome(o.new_focus) THEN o.new_focus
                                  ELSE new_focus_target
           /\ nodes_scrolled_in_callbacks' =
                  IF IsNone(o.scroll) THEN nodes_scrolled_in_callbacks
                  ELSE [k \in DOMAIN nodes_scrolled_in_callbacks \cup {o.scroll[1].key} |->
                          IF k = o.scroll[1].key THEN o.scroll[1].position
                          ELSE nodes_scrolled_in_callbacks[k]]
           /\ call_cursor' = next.cursor
           /\ blacklisted_event_types' = next.bl
    /\ UNCHANGED <<layout_results, nodes_with_callbacks, call_focused_node,
                   modifiable_scroll_states, call_returned>>
    /\ UNCHANGED not_call_vars

\* lines 742-769 (or the `return ret` of line 615): the programmatic scrolls
\* are applied, the focus target is resolved and `ret` is returned
CallReturn ==
    /\ ~call_returned
    /\ call_cursor.aborted \/ call_cursor.dom_idx > Len(DomsInOrder(nodes_with_callbacks))
    /\ call_returned' = TRUE
    /\ IF call_cursor.aborted
       THEN UNCHANGED <<ret, modifiable_scroll_states>>
       ELSE LET applied == {k \in DOMAIN nodes_scrolled_in_callbacks :
                               k[2] \in layout_results[k[1]].overflowing_nodes}
                new_focus_node == ResolveFocusTarget(new_focus_target, layout_results)
                focus_has_changed == call_focused_node /= new_focus_node
            IN  /\ modifiable_scroll_states' =
                       [k \in DOMAIN modifiable_scroll_states \cup applied |->
                           IF k \in applied THEN nodes_scrolled_in_callbacks[k]
                           ELSE modifiable_scroll_states[k]]
                /\ ret' = [ret EXCEPT
                       !.should_scroll_render = (applied /= {}),
                       !.update_focused_node =
                           IF focus_has_changed THEN Some(new_focus_node) ELSE None]
    /\ UNCHANGED <<layout_results, nodes_with_callbacks, call_focused_node, call_cursor,
                   blacklisted_event_types, invoked, new_focus_target,
                   nodes_scrolled_in_callbacks>>
    /\ UNCHANGED not_call_vars

-----------------------------------------------------------------------------
(* determine_preferred!: src/ui_solver.rs:493-559 *)

\* The pixel values of the properties, as to_pixels() returns them; f32 values
\* are integers here, negative ones included, and there is no NaN.
Pixels == (0 - 1)..MaxPx

\* f32::MAX: above every pixel value
F32Max == 2147483647

\* WhConstraint (src/ui_solver.rs:442-450); all three as records of one shape
Between(min, max, prefer) == [tag |-> "Between", min |-> min, max |-> max, prefer |-> prefer]
EqualTo(exact) == [tag |-> "EqualTo", min |-> exact, max |-> exact, prefer |-> "Min"]
Unconstrained == [tag |-> "Unconstrained", min |-> 0, max |-> 0, prefer |-> "Min"]

\* f32::min, f32::max
F32Min2(a, b) == IF a < b THEN a ELSE b
F32Max2(a, b) == IF a > b THEN a ELSE b

\* WhConstraint::actual_value
actual_value(c) ==
    IF c.tag = "Between" THEN (IF c.prefer = "Min" THEN Some(c.min) ELSE Some(c.max))
    ELSE IF c.tag = "EqualTo" THEN Some(c.min)
    ELSE None

\* WhConstraint::min_needed_space
min_needed_space(c) == IF IsSome(actual_value(c)) THEN actual_value(c)[1] ELSE 0

\* WhConstraint::max_available_space
max_available_space(c) == IF c.tag = "Unconstrained" THEN F32Max ELSE c.max

\* (mutation of AbsoluteMinMax: min and max are taken as given)
AbsoluteMinMaxAsGiven(min_width, max_width) == <<min_width, max_width>>

\* lines 503-514: (absolute_min, absolute_max)
AbsoluteMinMax(min_width, max_width) ==
    IF IsSome(min_width) /\ IsSome(max_width)
    THEN (IF min_width[1] < max_width[1]
          THEN <<min_width, max_width>>
          ELSE <<max_width, max_width>>)
    ELSE <<min_width, max_width>>

\* lines 516-540: a width is given
PreferredWithWidth(width, absolute_min, absolute_max) ==
    IF IsSome(absolute_max)
    THEN (IF IsSome(absolute_min)
          THEN (IF absolute_min[1] < width /\ width < absolute_max[1]
                THEN EqualTo(width)
                ELSE IF width > absolute_max[1] THEN EqualTo(absolute_max[1])
                ELSE IF width < absolute_min[1] THEN EqualTo(absolute_min[1])
                ELSE Unconstrained)
          ELSE EqualTo(F32Min2(width, absolute_max[1])))
    ELSE IF IsSome(absolute_min) THEN EqualTo(F32Max2(width, absolute_min[1]))
    ELSE EqualTo(width)

\* (mutation of PreferredWithoutWidth: the lower bound is always 0)
PreferredWithoutWidthFromZero(absolute_min, absolute_max) ==
    IF IsSome(absolute_max) THEN Between(0, absolute_max[1], "Min")
    ELSE IF IsSome(absolute_min) THEN Between(0, F32Max, "Min")
    ELSE Unconstrained

\* lines 541-557: no width is given
PreferredWithoutWidth(absolute_min, absolute_max) ==
    IF IsSome(absolute_max)
    THEN (IF IsSome(absolute_min)
          THEN Between(absolute_min[1], absolute_max[1], "Min")
          ELSE Between(0, absolute_max[1], "Min"))
    ELSE IF IsSome(absolute_min) THEN Between(absolute_min[1], F32Max, "Min")
    ELSE Unconstrained

\* the body of the function that determine_preferred! expands to
determine_preferred(width, min_width, max_width) ==
    LET abs == AbsoluteMinMax(min_width, max_width)
    IN  IF IsSome(width) THEN PreferredWithWidth(width[1], abs[1], abs[2])
        ELSE PreferredWithoutWidth(abs[1], abs[2])

\* RectLayout: the six properties that the two functions read
RectLayouts ==
    [width : OptionOf(Pixels), min_width : OptionOf(Pixels), max_width : OptionOf(Pixels),
     height : OptionOf(Pixels), min_height : OptionOf(Pixels), max_height : OptionOf(Pixels)]

\* RectLayout::default()
DefaultRectLayout ==
    [width |-> None, min_width |-> None, max_width |-> None,
     height |-> None, min_height |-> None, max_height |-> None]

PrefIdle ==
    /\ rect_layout = DefaultRectLayout
    /\ preferred_width = None
    /\ preferred_height = None

\* determine_preferred!(determine_preferred_width, width, min_width, max_width)
DeterminePreferredWidth ==
    /\ preferred_width' = Some(determine_preferred(rect_layout.width,
                               rect_layout.min_width, rect_layout.max_width))
    /\ UNCHANGED <<rect_layout, preferred_height>>
    /\ UNCHANGED not_pref_vars

\* determine_preferred!(determine_preferred_height, height, min_height, max_height)
DeterminePreferredHeight ==
    /\ preferred_height' = Some(determine_preferred(rect_layout.height,
                                rect_layout.min_height, rect_layout.max_height))
    /\ UNCHANGED <<rect_layout, preferred_width>>
    /\ UNCHANGED not_pref_vars

PrefNext ==
    \/ DeterminePreferredWidth
    \/ DeterminePreferredHeight

-----------------------------------------------------------------------------
(* LayoutResult::get_hits: azul-core/src/ui_solver.rs:511-566 *)

\* An f32 is modelled as a whole number of half pixels: 3 stands for 1.5.
\* libm::roundf rounds a half away from zero.
roundf(h) == IF h >= 0 THEN (h + 1) \div 2 ELSE 0 - ((1 - h) \div 2)

\* `as isize` on an f32 drops the fraction (rounds toward zero)
AsIsize(h) == IF h >= 0 THEN h \div 2 ELSE 0 - ((0 - h) \div 2)

LayoutPoint(x, y) == [x |-> x, y |-> y]
LayoutSize(width, height) == [width |-> width, height |-> height]
LayoutRect(origin, size) == [origin |-> origin, size |-> size]

\* LayoutRect::hit_test: the point relative to the origin of the rectangle if
\* the rectangle contains the point
LayoutRectHitTest(rect, p) ==
    IF /\ rect.origin.x <= p.x /\ p.x < rect.origin.x + rect.size.width
       /\ rect.origin.y <= p.y /\ p.y < rect.origin.y + rect.size.height
    THEN Some(LayoutPoint(p.x - rect.origin.x, p.y - rect.origin.y))
    ELSE None

\* PositionedRectangle with the static offsets of its PositionInfo
PositionedRectangle(static_x_offset, static_y_offset) ==
    [static_x_offset |-> static_x_offset, static_y_offset |-> static_y_offset]

\* PositionedRectangle::get_static_offset
get_static_offset(rect) ==
    LayoutPoint(roundf(rect.static_x_offset), roundf(rect.static_y_offset))

\* WidthCalculatedRect::total / HeightCalculatedRect::total
SolvedRect(min_inner_size_px, flex_grow_px) ==
    [min_inner_size_px |-> min_inner_size_px, flex_grow_px |-> flex_grow_px]

total(calculated_rect) ==
    calculated_rect.min_inner_size_px + calculated_rect.flex_grow_px

\* ScrollStates::get_scroll_position
get_scroll_position(scroll_states, scroll_id) == MapGet(scroll_states, scroll_id)

\* iter().filter_map(f).collect() into a BTreeMap: `entries` is the sequence
\* of what f returns, each None or Some(<<key, value>>)
RECURSIVE CollectFilterMap(_)
CollectFilterMap(entries) ==
    IF entries = <<>> THEN [k \in {} |-> 0]
    ELSE LET rest == CollectFilterMap(SubSeq(entries, 1, Len(entries) - 1))
             last == entries[Len(entries)]
         IN  IF IsNone(last) THEN rest ELSE ExtendMap(rest, last[1][1], last[1][2])

\* (mutation of RegularHitOf: the rectangle starts at the window origin)
RegularHitOfAtOrigin(layout, cursor, t) ==
    LET az == AzIntoCrateInternal(t)
    IN  IF IsNone(az) THEN None
        ELSE LET node_id == az[1]
                 layout_offset == LayoutPoint(0, 0)
                 layout_size ==
                     LayoutSize(AsIsize(total(layout.width_calculated_rects[node_id])),
                                AsIsize(total(layout.height_calculated_rects[node_id])))
                 hit == LayoutRectHitTest(LayoutRect(layout_offset, layout_size), cursor)
             IN  IF IsNone(hit) THEN None
                 ELSE Some(<<node_id,
                             [point_in_viewport |-> cursor,
                              point_relative_to_item |-> hit[1],
                              is_iframe_hit |->
                                  IF node_id \in DOMAIN layout.iframe_mapping
                                  THEN Some(<<layout.iframe_mapping[node_id], layout_offset>>)
                                  ELSE None,
                              is_focusable |-> IsSome(layout.tab_index[node_id])]>>)

\* the closure of the regular hit items (lines 520-537), for the node id `t`
\* of one entry of tag_ids_to_node_ids
RegularHitOf(layout, cursor, t) ==
    LET az == AzIntoCrateInternal(t)
    IN  IF IsNone(az) THEN None
        ELSE LET node_id == az[1]
                 layout_offset == get_static_offset(layout.rects[node_id])
                 layout_size ==
                     LayoutSize(AsIsize(total(layout.width_calculated_rects[node_id])),
                                AsIsize(total(layout.height_calculated_rects[node_id])))
                 hit == LayoutRectHitTest(LayoutRect(layout_offset, layout_size), cursor)
             IN  IF IsNone(hit) THEN None
                 ELSE Some(<<node_id,
                             [point_in_viewport |-> cursor,
                              point_relative_to_item |-> hit[1],
                              is_iframe_hit |->
                                  IF node_id \in DOMAIN layout.iframe_mapping
                                  THEN Some(<<layout.iframe_mapping[node_id], layout_offset>>)
                                  ELSE None,
                              is_focusable |-> IsSome(layout.tab_index[node_id])]>>)

\* (mutation of ScrollHitOf: the cursor is tested where it is)
ScrollHitOfUnshifted(layout, cursor, scroll_states, az_node_id) ==
    LET overflowing == MapGet(layout.scrollable_nodes.overflowing_nodes, az_node_id)
        az == AzIntoCrateInternal(az_node_id)
    IN  IF IsNone(overflowing) \/ IsNone(az) THEN None
        ELSE LET overflowing_scroll_node == overflowing[1]
                 scroll_state == get_scroll_position(scroll_states,
                                     overflowing_scroll_node.parent_external_scroll_id)
             IN  IF IsNone(scroll_state) THEN None
                 ELSE LET hit == LayoutRectHitTest(overflowing_scroll_node.child_rect, cursor)
                      IN  IF IsNone(hit) THEN None
                          ELSE Some(<<az[1],
                                      [point_in_viewport |-> cursor,
                                       point_relative_to_item |-> hit[1],
                                       scroll_node |-> overflowing_scroll_node]>>)

\* the closure of the scroll hit items (lines 541-560), for the node id of one
\* entry of scrollable_nodes.tags_to_node_ids
ScrollHitOf(layout, cursor, scroll_states, az_node_id) ==
    LET overflowing == MapGet(layout.scrollable_nodes.overflowing_nodes, az_node_id)
        az == AzIntoCrateInternal(az_node_id)
    IN  IF IsNone(overflowing) \/ IsNone(az) THEN None
        ELSE LET overflowing_scroll_node == overflowing[1]
                 scroll_state == get_scroll_position(scroll_states,
                                     overflowing_scroll_node.parent_external_scroll_id)
             IN  IF IsNone(scroll_state) THEN None
                 ELSE LET scrolled_cursor ==
                              LayoutPoint(cursor.x + roundf(scroll_state[1].x),
                                          cursor.y + roundf(scroll_state[1].y))
                          hit == LayoutRectHitTest(overflowing_scroll_node.child_rect,
                                                   scrolled_cursor)
                      IN  IF IsNone(hit) THEN None
                          ELSE Some(<<az[1],
                                      [point_in_viewport |-> cursor,
                                       point_relative_to_item |-> hit[1],
                                       scroll_node |-> overflowing_scroll_node]>>)

get_hits(layout, cursor, scroll_states) ==
    LET tags == layout.tag_ids_to_node_ids
        scroll_tags == SetToVec(DOMAIN layout.scrollable_nodes.tags_to_node_ids)
    IN  [ regular_hit_test_nodes |->
              CollectFilterMap([i \in 1..Len(tags) |-> RegularHitOf(layout, cursor, tags[i])]),
          scroll_hit_test_nodes |->
              CollectFilterMap([i \in 1..Len(scroll_tags) |->
                  ScrollHitOf(layout, cursor, scroll_states,
                              layout.scrollable_nodes.tags_to_node_ids[scroll_tags[i]])]) ]

\* HitTest::is_empty
HitTestIsEmpty(h) ==
    DOMAIN h.regular_hit_test_nodes = {} /\ DOMAIN h.scroll_hit_test_nodes = {}

\* --- the layouts, cursors and scroll states get_hits is called with ---

AzNodeIds == {AzFromCrateInternal(o) : o \in OptionOf(NodeIds)}

\* f32 values, in half pixels: -0.5, 0.5, 1.5, 2.0
StaticOffsets == {0 - 1, 1}
SolvedSizes == {SolvedRect(1, 2), SolvedRect(2, 2)}

\* tag_ids_to_node_ids: the tagged nodes in ascending order, with or without
\* an entry whose node id is None in front
TaggedNodes(N) == [i \in 1..Cardinality(N) |-> AzFromCrateInternal(Some(SetToVec(N)[i]))]

TagVecs ==
    UNION {{TaggedNodes(N), <<AzFromCrateInternal(None)>> \o TaggedNodes(N)} :
              N \in SUBSET NodeIds}

PartialMaps(K, V) == UNION {[D -> V] : D \in SUBSET K}

NoScrolledNodes ==
    [overflowing_nodes |-> [k \in {} |-> 0], tags_to_node_ids |-> [k \in {} |-> 0]]

\* the scroll tag t belongs to node t; the node scrolls the rectangle at
\* (node, 0) of 2 x 1 pixels under the scroll id `node`
OverflowingScrollNode(n) ==
    [child_rect |-> LayoutRect(LayoutPoint(n, 0), LayoutSize(2, 1)),
     parent_external_scroll_id |-> n]

ScrolledNodesOf(tags_to_node_ids, overflowing) ==
    [overflowing_nodes |->
         [az \in overflowing |-> OverflowingScrollNode(IF IsNone(az) THEN 0 ELSE az[1])],
     tags_to_node_ids |-> tags_to_node_ids]

\* scroll positions (f32, in half pixels): (-1.5, -0.5) and (0.5, 0)
ScrollPositions == {LayoutPoint(0 - 3, 0 - 1), LayoutPoint(1, 0)}

\* ScrollStates: a scroll position for some of the scroll ids
ScrollStatesMaps == PartialMaps(NodeIds, ScrollPositions)

\* the scroll tags 0 and 1 are given to any nodes, or to none
ScrollTagMaps == PartialMaps({0, 1}, AzNodeIds)

HitLayoutResult(tags, rects, widths, heights, scrollable) ==
    [tag_ids_to_node_ids |-> tags,
     rects |-> rects,
     width_calculated_rects |-> widths,
     height_calculated_rects |-> heights,
     iframe_mapping |-> [n \in {0} |-> 1],
     tab_index |-> [n \in NodeIds |-> IF n = 0 THEN Some(0) ELSE None],
     scrollable_nodes |-> scrollable]

DefaultHitLayoutResult ==
    HitLayoutResult(<<>>, [n \in NodeIds |-> PositionedRectangle(0, 0)],
                    [n \in NodeIds |-> SolvedRect(0, 0)],
                    [n \in NodeIds |-> SolvedRect(0, 0)], NoScrolledNodes)

HitCursors == {LayoutPoint(x, y) : x \in Pixels, y \in Pixels}

HitsIdle ==
    /\ hit_layout_result = DefaultHitLayoutResult
    /\ hits_input = [cursor |-> LayoutPoint(0, 0), scroll_states |-> [k \in {} |-> 0]]
    /\ hits_ret = None

\* one call of get_hits on the layout result
GetHits(cursor, scroll_states) ==
    /\ hits_ret = None
    /\ hits_ret' = Some(get_hits(hit_layout_result, cursor, scroll_states))
    /\ hits_input' = [cursor |-> cursor, scroll_states |-> scroll_states]
    /\ UNCHANGED hit_layout_result
    /\ UNCHANGED not_hits_vars

-----------------------------------------------------------------------------
(* ComputedTransform3D: azul-core/src/ui_solver.rs:905-1196 *)

\* An f32 entry is modelled as an integer; every zero is +0.0.
\* The 4 x 4 matrix `m` is a function of the row and the column, 0..3 each.
Matrix4(m11, m12, m13, m14, m21, m22, m23, m24, m31, m32, m33, m34, m41, m42, m43, m44) ==
    [i \in 0..3 |->
        [j \in 0..3 |->
            <<<<m11, m12, m13, m14>>, <<m21, m22, m23, m24>>,
              <<m31, m32, m33, m34>>, <<m41, m42, m43, m44>>>>[i + 1][j + 1]]]

IDENTITY == Matrix4(1, 0, 0, 0,  0, 1, 0, 0,  0, 0, 1, 0,  0, 0, 0, 1)

new_2d(m11, m12, m21, m22, m41, m42) ==
    Matrix4(m11, m12, 0, 0,  m21, m22, 0, 0,  0, 0, 1, 0,  m41, m42, 0, 1)

new_scale(x, y, z) ==
    Matrix4(x, 0, 0, 0,  0, y, 0, 0,  0, 0, z, 0,  0, 0, 0, 1)

new_translation(x, y, z) ==
    Matrix4(1, 0, 0, 0,  0, 1, 0, 0,  0, 0, 1, 0,  x, y, z, 1)

\* f32::mul_add(a, b, c): a * b + c
mul_add(a, b, c) == a * b + c

\* f32::is_sign_positive: +0.0 has a positive sign
is_sign_positive(w) == w >= 0

\* f32 division, kept as a fraction; a zero denominator stands for the
\* infinity or NaN that the division gives
Div(a, b) == [num |-> a, den |-> b]

LogicalPosition(x, y) == [x |-> x, y |-> y]

\* the early exit of line 1167 is read as `return None`
transform_point2d(self, p) ==
    LET w == mul_add(p.x, self[0][3], mul_add(p.y, self[1][3], self[3][3]))
    IN  IF ~is_sign_positive(w) THEN None
        ELSE LET x == mul_add(p.x, self[0][0], mul_add(p.y, self[1][0], self[3][0]))
                 y == mul_add(p.x, self[0][1], mul_add(p.y, self[1][1], self[3][1]))
             IN  Some(LogicalPosition(Div(x, w), Div(y, w)))

\* the third factor of the sum that makes entry [i][j] of then(): lines
\* 1179-1194 read self.m[3][2] in row 2 and other.m[3][2] in column 2
ThenThirdLeft(self, i) == IF i = 2 THEN self[3][2] ELSE self[i][2]
ThenThirdRight(other, j) == IF j = 2 THEN other[3][2] ELSE other[2][j]

then(self, other) ==
    [i \in 0..3 |->
        [j \in 0..3 |->
            mul_add(self[i][0], other[0][j],
                mul_add(self[i][1], other[1][j],
                    mul_add(ThenThirdLeft(self, i), ThenThirdRight(other, j),
                        self[i][3] * other[3][j])))]]

\* PixelValue::to_pixels: pixels as they are, a percentage of percent_resolve
PixelValue(metric, number) == [metric |-> metric, number |-> number]

to_pixels(v, percent_resolve) ==
    IF v.metric = "Percent" THEN (v.number * percent_resolve) \div 100 ELSE v.number

\* FloatValue: the number is kept in thousandths; normalized() gives the f32
FloatValue(thousandths) == [metric |-> "Float", number |-> thousandths]

normalized(v) == v.number \div 1000

\* StyleTransform; the variants with an angle (Rotate*, Skew*) and Perspective
\* have irrational or fractional entries and are not modelled
StyleTransform(tag, x, y, z) == [tag |-> tag, x |-> x, y |-> y, z |-> z]

from_style_transform(t, transform_origin, percent_resolve) ==
    CASE t.tag = "Translate" ->
            new_translation(to_pixels(t.x, percent_resolve),
                            to_pixels(t.y, percent_resolve), 0)
      [] t.tag = "Translate3D" ->
            new_translation(to_pixels(t.x, percent_resolve),
                            to_pixels(t.y, percent_resolve),
                            to_pixels(t.z, percent_resolve))
      [] t.tag = "TranslateX" -> new_translation(to_pixels(t.x, percent_resolve), 0, 0)
      [] t.tag = "TranslateY" -> new_translation(0, to_pixels(t.y, percent_resolve), 0)
      [] t.tag = "TranslateZ" -> new_translation(0, 0, to_pixels(t.z, percent_resolve))
      [] t.tag = "Scale" -> new_scale(normalized(t.x), normalized(t.y), 0)
      [] t.tag = "Scale3D" -> new_scale(normalized(t.x), normalized(t.y), normalized(t.z))
      [] t.tag = "ScaleX" -> new_scale(normalized(t.x), 0, 0)
      [] t.tag = "ScaleY" -> new_scale(0, normalized(t.y), 0)
      [] t.tag = "ScaleZ" -> new_scale(0, 0, normalized(t.z))

\* StyleTransformOrigin::default
DefaultTransformOrigin == [x |-> PixelValue("Percent", 50), y |-> PixelValue("Percent", 50)]

\* transform_origins.get(t_idx).unwrap_or(transform_origins.get(0).unwrap_or(&default_origin))
TransformOriginAt(transform_origins, t_idx) ==
    IF t_idx < Len(transform_origins) THEN transform_origins[t_idx + 1]
    ELSE IF 0 < Len(transform_origins) THEN transform_origins[1]
    ELSE DefaultTransformOrigin

\* the loop of lines 951-954 after n transforms: `matrix.then(..)` builds the
\* product and drops it, `matrix` stays as it is
RECURSIVE TransformVecLoop(_, _, _, _)
TransformVecLoop(t_vec, transform_origins, percent_resolve, n) ==
    IF n = 0 THEN IDENTITY
    ELSE LET matrix == TransformVecLoop(t_vec, transform_origins, percent_resolve, n - 1)
             dropped == then(matrix, from_style_transform(t_vec[n],
                                 TransformOriginAt(transform_origins, n - 1),
                                 percent_resolve))
         IN  matrix

from_style_transform_vec(t_vec, transform_origins, percent_resolve) ==
    TransformVecLoop(t_vec, transform_origins, percent_resolve, Len(t_vec))

\* --- the matrices, points and transforms the functions are called with ---

\* matrix entries and coordinates
XfVals == {0 - 1, 0, 1, 2}

\* IDENTITY with one entry replaced
XfMatrices == {[IDENTITY EXCEPT ![i][j] = v] : i \in 0..3, j \in 0..3, v \in XfVals}

XfPoints == {LogicalPosition(x, y) : x \in XfVals, y \in XfVals}

XfPixelValues == {PixelValue("Px", 0 - 1), PixelValue("Px", 2), PixelValue("Percent", 50)}
XfScales == {FloatValue(0 - 1000), FloatValue(2000)}

TranslateTransforms ==
    {StyleTransform("Translate", x, y, PixelValue("Px", 0)) :
        x \in XfPixelValues, y \in XfPixelValues}
    \cup {StyleTransform("Translate3D", x, x, z) : x \in XfPixelValues, z \in XfPixelValues}
    \cup {StyleTransform(tag, x, x, x) :
            tag \in {"TranslateX", "TranslateY", "TranslateZ"}, x \in XfPixelValues}

ScaleTransforms ==
    {StyleTransform("Scale", x, y, FloatValue(0)) : x \in XfScales, y \in XfScales}
    \cup {StyleTransform("Scale3D", x, y, z) : x \in XfScales, y \in XfScales, z \in XfScales}
    \cup {StyleTransform(tag, x, x, x) : tag \in {"ScaleX", "ScaleY", "ScaleZ"}, x \in XfScales}

StyleTransforms == TranslateTransforms \cup ScaleTransforms

\* the transforms of a transform list
ListedTransforms ==
    {StyleTransform("Translate", PixelValue("Px", 2), PixelValue("Percent", 50),
                    PixelValue("Px", 0)),
     StyleTransform("TranslateY", PixelValue("Px", 2), PixelValue("Px", 2), PixelValue("Px", 2)),
     StyleTransform("Scale3D", FloatValue(2000), FloatValue(2000), FloatValue(2000)),
     StyleTransform("ScaleX", FloatValue(2000), FloatValue(2000), FloatValue(2000))}

SeqsUpTo(S, n) == UNION {[1..k -> S] : k \in 0..n}

TransformOrigins ==
    {DefaultTransformOrigin, [x |-> PixelValue("Px", 0), y |-> PixelValue("Px", 0)]}

PercentResolves == {100, 200}

XfIdle ==
    /\ xf_call = None
    /\ xf_ret = None

\* one call of a function of ComputedTransform3D
CallTransformPoint2d ==
    /\ xf_call = None
    /\ \E self \in XfMatrices, p \in XfPoints :
           /\ xf_call' = Some([fn |-> "transform_point2d", self |-> self, p |-> p])
           /\ xf_ret' = Some(transform_point2d(self, p))
    /\ UNCHANGED not_xf_vars

CallThen ==
    /\ xf_call = None
    /\ \E self \in XfMatrices, other \in XfMatrices :
           /\ xf_call' = Some([fn |-> "then", self |-> self, other |-> other])
           /\ xf_ret' = Some(then(self, other))
    /\ UNCHANGED not_xf_vars

CallFromStyleTransform ==
    /\ xf_call = None
    /\ \E t \in StyleTransforms, origin \in TransformOrigins, percent_resolve \in PercentResolves :
           /\ xf_call' = Some([fn |-> "from_style_transform", t |-> t,
                               transform_origin |-> origin,
                               percent_resolve |-> percent_resolve])
           /\ xf_ret' = Some(from_style_transform(t, origin, percent_resolve))
    /\ UNCHANGED not_xf_vars

CallFromStyleTransformVec ==
    /\ xf_call = None
    /\ \E t_vec \in SeqsUpTo(ListedTransforms, MaxTransforms),
          transform_origins \in SeqsUpTo(TransformOrigins, 1),
          percent_resolve \in PercentResolves :
           /\ xf_call' = Some([fn |-> "from_style_transform_vec", t_vec |-> t_vec,
                               transform_origins |-> transform_origins,
                               percent_resolve |-> percent_resolve])
           /\ xf_ret' = Some(from_style_transform_vec(t_vec, transform_origins, percent_resolve))
    /\ UNCHANGED not_xf_vars

TransformNext ==
    \/ CallTransformPoint2d
    \/ CallThen
    \/ CallFromStyleTransform
    \/ CallFromStyleTransformVec

-----------------------------------------------------------------------------
(* get_nearest_positioned_ancestor: src/ui_solver.rs:794-813 *)

LayoutPositions == {"Static", "Relative", "Absolute", "Fixed"}

\* Arena<DisplayRectangle>: the parent of every node but the root and
\* data.layout.position of every node
Arena(parent, position) == [parent |-> parent, position |-> position]

\* arena[n].parent()
ArenaParent(arena, n) == IF n \in DOMAIN arena.parent THEN Some(arena.parent[n]) ELSE None

Arenas ==
    {Arena(parent, position) :
        parent \in Hierarchies, position \in [TreeNodeIds -> OptionOf(LayoutPositions)]}

AncIdle ==
    /\ anc_arena = Arena([n \in {} |-> 0], [n \in {0} |-> None])
    /\ anc_start_node_id = None
    /\ anc_current_node = 0
    /\ anc_ret = None

\* create_layout_constraints calls the function for a rectangle with
\* position: absolute (lines 415-423)
CallGetNearestPositionedAncestor ==
    /\ anc_start_node_id = None
    /\ \E rect_id \in TreeNodeIds :
           /\ anc_arena.position[rect_id] = Some("Absolute")
           /\ anc_start_node_id' = Some(rect_id)
           /\ anc_current_node' = rect_id
    /\ UNCHANGED <<anc_arena, anc_ret>>
    /\ UNCHANGED not_anc_vars

\* one turn of the `while let` loop, or the `None` after it
NearestPositionedAncestorLoop ==
    /\ IsSome(anc_start_node_id)
    /\ anc_ret = None
    /\ LET parent == ArenaParent(anc_arena, anc_current_node)
       IN  IF IsSome(parent)
           THEN IF anc_arena.position[parent[1]] = Some("Static")
                THEN /\ anc_current_node' = parent[1]
                     /\ UNCHANGED anc_ret
                ELSE /\ anc_ret' = Some(Some(parent[1]))
                     /\ UNCHANGED anc_current_node
           ELSE /\ anc_ret' = Some(None)
                /\ UNCHANGED anc_current_node
    /\ UNCHANGED <<anc_arena, anc_start_node_id>>
    /\ UNCHANGED not_anc_vars

AncestorNext ==
    \/ CallGetNearestPositionedAncestor
    \/ NearestPositionedAncestorLoop

-----------------------------------------------------------------------------
(* new_dom_id: src/ui_solver.rs:23-37 *)

\* DomId(0), reserved for the root DOM of the window
TOP_LEVEL_DOM_ID == 0

\* usize has UsizeBits bits
UsizeModulus == 2 ^ UsizeBits

DomIdThreads == 1..MaxThreads

\* (mutation of fetch_add: the counter is read and left as it is)
fetch_add_nothing(counter, val) == counter

\* AtomicUsize::fetch_add: the new value of the counter, which wraps around
fetch_add(counter, val) == (counter + val) % UsizeModulus

DomIdIdle ==
    /\ LAST_DOM_ID = 1
    /\ dom_id_fetched = [t \in DomIdThreads |-> None]
    /\ dom_ids_issued = <<>>
    /\ dom_ids_returned = <<>>

\* a thread calls new_dom_id and performs the fetch_add, in one atomic step
NewDomIdFetchAdd(t) ==
    /\ dom_id_fetched[t] = None
    /\ Len(dom_ids_issued) < MaxDomIdCalls
    /\ LAST_DOM_ID' = fetch_add(LAST_DOM_ID, 1)
    /\ dom_id_fetched' = [dom_id_fetched EXCEPT ![t] = Some(LAST_DOM_ID)]
    /\ dom_ids_issued' = Append(dom_ids_issued, LAST_DOM_ID)
    /\ UNCHANGED dom_ids_returned
    /\ UNCHANGED not_id_vars

\* new_dom_id returns DomId(..) to the thread
NewDomIdReturn(t) ==
    /\ dom_id_fetched[t] /= None
    /\ dom_ids_returned' = Append(dom_ids_returned, <<t, dom_id_fetched[t][1]>>)
    /\ dom_id_fetched' = [dom_id_fetched EXCEPT ![t] = None]
    /\ UNCHANGED <<LAST_DOM_ID, dom_ids_issued>>
    /\ UNCHANGED not_id_vars

DomIdNext ==
    \/ \E t \in DomIdThreads : NewDomIdFetchAdd(t)
    \/ \E t \in DomIdThreads : NewDomIdReturn(t)

-----------------------------------------------------------------------------
(* WhConstraint::calculate_from_relative_parent: azul-core/src/ui_solver.rs:244-254 *)

\* WhConstraint of azul-core (ui_solver.rs:197-205): Between(min, max) has no
\* preference; all three as records of one shape
WhBetween(min, max) == [tag |-> "Between", min |-> min, max |-> max]
WhEqualTo(exact) == [tag |-> "EqualTo", min |-> exact, max |-> exact]
WhUnconstrained == [tag |-> "Unconstrained", min |-> 0, max |-> 0]

\* (mutation of calculate_from_relative_parent: max and min are applied the
\* other way round)
calculate_from_relative_parent_min_first(c, relative_parent_width) ==
    IF c.tag = "EqualTo" THEN c.min
    ELSE IF c.tag = "Between"
    THEN F32Min2(F32Max2(relative_parent_width, c.max), c.min)
    ELSE relative_parent_width

calculate_from_relative_parent(c, relative_parent_width) ==
    IF c.tag = "EqualTo" THEN c.min
    ELSE IF c.tag = "Between"
    THEN F32Min2(F32Max2(relative_parent_width, c.min), c.max)
    ELSE relative_parent_width

\* widths in pixels, below zero included
RelativeWidths == (0 - 2)..MaxPx

\* every constraint over these widths, also Between(min, max) with min > max
WhConstraints ==
    {WhBetween(min, max) : min \in RelativeWidths, max \in RelativeWidths}
    \cup {WhEqualTo(e) : e \in RelativeWidths}
    \cup {WhUnconstrained}

RelIdle ==
    /\ rel_call = None
    /\ rel_ret = None

CallCalculateFromRelativeParent ==
    /\ rel_call = None
    /\ \E c \in WhConstraints, relative_parent_width \in RelativeWidths :
           /\ rel_call' = Some([constraint |-> c,
                                relative_parent_width |-> relative_parent_width])
           /\ rel_ret' = Some(calculate_from_relative_parent(c, relative_parent_width))
    /\ UNCHANGED not_rel_vars

-----------------------------------------------------------------------------
(* StyleAndLayoutChanges::new: window_state.rs:257-424 *)

\* A StyledNode: the Vec<ChangedCssProperty> that restyle_hover, restyle_active
\* and restyle_focus return when the node changes that state
StyledNode(hover, active, focus) == [hover |-> hover, active |-> active, focus |-> focus]

\* StyledNode::needs_hover_restyle / needs_active_restyle / needs_focus_restyle
needs_restyle(styled_node, state) == styled_node[state] /= <<>>

\* StyledNode::restyle_hover / restyle_active / restyle_focus
restyle(styled_node, state) == styled_node[state]

\* A CssProperty of css_changes: its type, and whether its value differs from
\* the value the node has
CssProperty(type, differs) == [type |-> type, differs |-> differs]

\* StyledNode::restyle_single_property -> Option<ChangedCssProperty>
restyle_single_property(styled_node, prop) ==
    IF prop.differs THEN Some(prop.type) ELSE None

\* PositionedRectangle with its size and the static offsets of its position
SizedRectangle(x, y, width, height) ==
    [static_x_offset |-> x, static_y_offset |-> y,
     size |-> [width |-> width, height |-> height]]

\* PositionedRectangle::get_content_size (ui_solver.rs:681-683)
get_content_size(rect) == LayoutSize(roundf(rect.size.width), roundf(rect.size.height))

\* PositionedRectangle::get_approximate_static_bounds (ui_solver.rs:675-677)
get_approximate_static_bounds(rect) ==
    LayoutRect(get_static_offset(rect), get_content_size(rect))

\* the fields of a LayoutResult that StyleAndLayoutChanges::new reads
RestyledLayoutResult(styled_nodes, parent_dom_id, iframe_mapping, rects) ==
    [styled_nodes |-> styled_nodes, parent_dom_id |-> parent_dom_id,
     iframe_mapping |-> iframe_mapping, rects |-> rects]

\* the concatenation of a sequence of sequences
RECURSIVE Flatten(_)
Flatten(ss) == IF ss = <<>> THEN <<>> ELSE Head(ss) \o Flatten(Tail(ss))

\* One access of layout_results[dom.inner] in the order of the code: "index"
\* borrows the layout result (lines 276, 311), "hover" / "active" / "focus"
\* restyle a node for that state, "css" overrides one property of a node
RestyleItem(kind, dom, node, prop) == [kind |-> kind, dom |-> dom, node |-> node, prop |-> prop]

NoCssProperty == CssProperty("Opacity", FALSE)

\* lines 275-307 and 310-342: one loop over onmouseenter_nodes or onmouseleave_nodes
HoverItems(hover_nodes, is_mouse_down) ==
    LET doms == SetToVec(DOMAIN hover_nodes)
        OfNode(d, n) ==
            <<RestyleItem("hover", d, Some(n), NoCssProperty)>>
            \o (IF is_mouse_down
                THEN <<RestyleItem("active", d, Some(n), NoCssProperty)>> ELSE <<>>)
        OfDom(d) ==
            LET ns == SetToVec(hover_nodes[d])
            IN  <<RestyleItem("index", d, None, NoCssProperty)>>
                \o Flatten([j \in 1..Len(ns) |-> OfNode(d, ns[j])])
    IN  Flatten([i \in 1..Len(doms) |-> OfDom(doms[i])])

\* lines 344-380: the old and the new focus node, when they differ
FocusItems(old_focus_node, new_focus_node) ==
    LET Of(f) == IF IsSome(f)
                 THEN <<RestyleItem("focus", f[1].dom, f[1].node, NoCssProperty)>>
                 ELSE <<>>
    IN  IF old_focus_node /= new_focus_node
        THEN Of(old_focus_node) \o Of(new_focus_node)
        ELSE <<>>

\* lines 383-396: every property of css_changes
CssItems(css_changes) ==
    LET doms == SetToVec(DOMAIN css_changes)
        OfNode(d, n) ==
            [i \in 1..Len(css_changes[d][n]) |->
                RestyleItem("css", d, Some(n), css_changes[d][n][i])]
        OfDom(d) ==
            LET ns == SetToVec(DOMAIN css_changes[d])
            IN  Flatten([j \in 1..Len(ns) |-> OfNode(d, ns[j])])
    IN  Flatten([i \in 1..Len(doms) |-> OfDom(doms[i])])

\* changes.entry(dom).or_insert_with(..).entry(node).or_insert_with(..).append(props),
\* which the code does for a non-empty `props` only
AppendChanges(changes, dom, node, props) ==
    IF props = <<>> THEN changes
    ELSE LET of_dom == IF dom \in DOMAIN changes THEN changes[dom] ELSE [n \in {} |-> <<>>]
             of_node == IF node \in DOMAIN of_dom THEN of_dom[node] ELSE <<>>
         IN  ExtendMap(changes, dom, ExtendMap(of_dom, node, of_node \o props))

\* (mutation of RecordChanged: a property that can trigger a relayout is also
\* recorded in style_changes)
RecordChangedStyleAlways(acc, dom, node, changed) ==
    [acc EXCEPT
        !.style_changes = AppendChanges(@, dom, node, changed),
        !.layout_changes =
            AppendChanges(@, dom, node,
                          SelectSeq(changed, LAMBDA t : can_trigger_relayout(t)))]

\* the two filters on can_trigger_relayout and the two appends (lines 284-292)
RecordChanged(acc, dom, node, changed) ==
    [acc EXCEPT
        !.style_changes =
            AppendChanges(@, dom, node,
                          SelectSeq(changed, LAMBDA t : ~can_trigger_relayout(t))),
        !.layout_changes =
            AppendChanges(@, dom, node,
                          SelectSeq(changed, LAMBDA t : can_trigger_relayout(t)))]

\* one access: layout_results[dom.inner] panics for a DOM without layout
\* result, node.into_crate_internal().unwrap() for a node id of None
ApplyRestyleItem(acc, item, results) ==
    IF acc.panicked THEN acc
    ELSE IF item.dom >= Len(results) THEN [acc EXCEPT !.panicked = TRUE]
    ELSE IF item.kind = "index" THEN acc
    ELSE IF IsNone(AzIntoCrateInternal(item.node)) THEN [acc EXCEPT !.panicked = TRUE]
    ELSE LET node == AzIntoCrateInternal(item.node)[1]
             styled_node == results[item.dom + 1].styled_nodes[node]
             changed ==
                 IF item.kind = "css"
                 THEN (IF IsSome(restyle_single_property(styled_node, item.prop))
                       THEN <<restyle_single_property(styled_node, item.prop)[1]>>
                       ELSE <<>>)
                 ELSE IF needs_restyle(styled_node, item.kind)
                 THEN restyle(styled_node, item.kind)
                 ELSE <<>>
         IN  RecordChanged(acc, item.dom, node, changed)

RECURSIVE ApplyRestyleItems(_, _, _)
ApplyRestyleItems(acc, items, results) ==
    IF items = <<>> THEN acc
    ELSE ApplyRestyleItems(ApplyRestyleItem(acc, Head(items), results),
                           Tail(items), results)

\* (mutation of RelayoutParentRect: every DOM is laid out in the window)
RelayoutParentRectOfWindow(dom_id, results, window_size) ==
    Some(LayoutRect(LayoutPoint(0, 0), window_size))

\* lines 408-415: the parent_rect of a DOM, None when the code panics
RelayoutParentRect(dom_id, results, window_size) ==
    LET parent_dom_id == results[dom_id + 1].parent_dom_id
    IN  IF IsNone(parent_dom_id)
        THEN Some(LayoutRect(LayoutPoint(0, 0), window_size))
        ELSE IF parent_dom_id[1] >= Len(results) THEN None
        ELSE LET parent_layout_result == results[parent_dom_id[1] + 1]
                 found == {k \in DOMAIN parent_layout_result.iframe_mapping :
                              parent_layout_result.iframe_mapping[k] = dom_id}
             IN  IF found = {} THEN None
                 ELSE Some(get_approximate_static_bounds(
                               parent_layout_result.rects[SetToVec(found)[1]]))

\* lines 406-418: the filter_map over layout_changes
RECURSIVE RelayoutDoms(_, _, _)
RelayoutDoms(acc, doms, input) ==
    IF doms = <<>> \/ acc.panicked THEN acc
    ELSE LET dom_id == Head(doms)
             relayout_nodes == acc.layout_changes[dom_id]
             parent_rect == RelayoutParentRect(dom_id, input.layout_results, input.window_size)
             changed_size == input.relayout_cb[dom_id]
         IN  IF MapIsEmpty(relayout_nodes) THEN RelayoutDoms(acc, Tail(doms), input)
             ELSE IF IsNone(parent_rect) THEN [acc EXCEPT !.panicked = TRUE]
             ELSE RelayoutDoms(
                      [acc EXCEPT
                          !.relayout_calls =
                              Append(@, [dom_id |-> dom_id, parent_rect |-> parent_rect[1],
                                         relayout_nodes |-> relayout_nodes]),
                          !.nodes_that_changed_size =
                              IF changed_size /= <<>>
                              THEN ExtendMap(@, dom_id, changed_size) ELSE @],
                      Tail(doms), input)

\* StyleAndLayoutChanges::new, with the calls of relayout_cb it has made and
\* whether it has panicked
StyleAndLayoutChangesNew(input) ==
    LET nodes == input.nodes
        is_mouse_down == nodes.current_window_state_mouse_is_down
        new_focus_node == IF IsSome(input.callbacks_new_focus)
                          THEN input.callbacks_new_focus[1] ELSE nodes.new_focus_node
        items == HoverItems(nodes.onmouseenter_nodes, is_mouse_down)
                 \o HoverItems(nodes.onmouseleave_nodes, is_mouse_down)
                 \o FocusItems(nodes.old_focus_node, new_focus_node)
                 \o CssItems(input.css_changes)
        start == [style_changes |-> EmptyChanges, layout_changes |-> EmptyChanges,
                  nodes_that_changed_size |-> EmptyChanges,
                  relayout_calls |-> <<>>, panicked |-> FALSE]
        restyled == ApplyRestyleItems(start, items, input.layout_results)
    IN  RelayoutDoms(restyled, SetToVec(DOMAIN restyled.layout_changes), input)

NoRestyleInput ==
    [nodes |-> NodesToCheckEmpty(FALSE), layout_results |-> <<>>,
     window_size |-> LayoutSize(0, 0), css_changes |-> EmptyChanges,
     callbacks_new_focus |-> None, relayout_cb |-> [d \in DomIds |-> <<>>]]

SalIdle ==
    /\ sal_input = NoRestyleInput
    /\ sal_ret = None
    /\ sal_relayout_calls = <<>>
    /\ sal_panicked = FALSE

CallStyleAndLayoutChangesNew ==
    /\ sal_ret = None
    /\ ~sal_panicked
    /\ LET r == StyleAndLayoutChangesNew(sal_input)
       IN  /\ sal_relayout_calls' = r.relayout_calls
           /\ sal_panicked' = r.panicked
           /\ sal_ret' = IF r.panicked THEN None
                         ELSE Some([style_changes |-> r.style_changes,
                                    layout_changes |-> r.layout_changes,
                                    nodes_that_changed_size |-> r.nodes_that_changed_size])
    /\ UNCHANGED sal_input
    /\ UNCHANGED not_sal_vars

-----------------------------------------------------------------------------
(* DomSolver: src/src/ui_solver.rs:97-217 *)

\* cassowary::Solver, as far as DomSolver uses it: the constraints that it
\* holds and its edit variables with the value suggested for each.  A
\* Constraint is compared by identity, a clone is the same constraint.
SolverNew == [cns |-> {}, edits |-> [v \in {} |-> 0]]

\* Result<(), _> of a Solver method, with the Solver as the method leaves it
SolverOk(s) == [ok |-> TRUE, solver |-> s]
SolverErr(s) == [ok |-> FALSE, solver |-> s]

\* Solver::add_edit_variable: Err(DuplicateEditVariable) for a registered one
add_edit_variable(s, v) ==
    IF v \in DOMAIN s.edits THEN SolverErr(s)
    ELSE SolverOk([s EXCEPT !.edits = ExtendMap(s.edits, v, 0)])

\* Solver::suggest_value: Err(UnknownEditVariable) for an unregistered one
suggest_value(s, v, value) ==
    IF v \notin DOMAIN s.edits THEN SolverErr(s)
    ELSE SolverOk([s EXCEPT !.edits = ExtendMap(s.edits, v, value)])

\* Solver::add_constraint: Err(DuplicateConstraint) for a constraint that the
\* solver holds (the constraints are below REQUIRED strength, so none is
\* rejected as unsatisfiable)
add_constraint(s, c) ==
    IF c \in s.cns THEN SolverErr(s)
    ELSE SolverOk([s EXCEPT !.cns = s.cns \cup {c}])

\* Solver::add_constraints: add_constraint one by one, up to the first error
RECURSIVE add_constraints(_, _)
add_constraints(s, constraints) ==
    IF constraints = <<>> THEN SolverOk(s)
    ELSE LET r == add_constraint(s, Head(constraints))
         IN  IF r.ok THEN add_constraints(r.solver, Tail(constraints)) ELSE r

\* Solver::remove_constraint: Err(UnknownConstraint) for a constraint that
\* the solver does not hold
remove_constraint(s, c) ==
    IF c \notin s.cns THEN SolverErr(s)
    ELSE SolverOk([s EXCEPT !.cns = s.cns \ {c}])

\* Variable::new() hands out a fresh variable on every call
RootWidthVar == 0
RootHeightVar == 1

\* (mutation of RootSizeConstraintsNew: the height is not an edit variable)
RootSizeConstraintsNewWidthOnly(s, root_size) ==
    LET s1 == add_edit_variable(s, RootWidthVar)
        s2 == suggest_value(s1.solver, RootWidthVar, root_size.width)
    IN  [ok |-> s1.ok /\ s2.ok, solver |-> s2.solver,
         root_constraints |-> [width_var |-> RootWidthVar, height_var |-> RootHeightVar]]

\* RootSizeConstraints::new (lines 72-87); `ok` is false if an unwrap() panics
RootSizeConstraintsNew(s, root_size) ==
    LET s1 == add_edit_variable(s, RootWidthVar)
        s2 == add_edit_variable(s1.solver, RootHeightVar)
        s3 == suggest_value(s2.solver, RootWidthVar, root_size.width)
        s4 == suggest_value(s3.solver, RootHeightVar, root_size.height)
    IN  [ok |-> s1.ok /\ s2.ok /\ s3.ok /\ s4.ok, solver |-> s4.solver,
         root_constraints |-> [width_var |-> RootWidthVar, height_var |-> RootHeightVar]]

NoAddedConstraints == [n \in {} |-> <<>>]

\* the constraints of added_constraints.values(), entry after entry
RecordedConstraints(added) ==
    Flatten([i \in 1..Cardinality(DOMAIN added) |-> added[SetToVec(DOMAIN added)[i]]])

\* the last two calls, the newest last
NoteCall(calls, name) ==
    IF Len(calls) < 2 THEN Append(calls, name) ELSE <<calls[2], name>>

\* no DomSolver has been made
DsIdle ==
    /\ ds_solver = SolverNew
    /\ ds_added_constraints = NoAddedConstraints
    /\ ds_root_constraints = None
    /\ ds_panicked = {}
    /\ ds_last_calls = <<>>

\* DomSolver::new (lines 122-134)
DomSolverNew(size) ==
    LET r == RootSizeConstraintsNew(SolverNew, size)
    IN  /\ ds_solver = r.solver
        /\ ds_added_constraints = NoAddedConstraints
        /\ ds_root_constraints = r.root_constraints
        /\ ds_panicked = IF r.ok THEN {} ELSE {"new"}
        /\ ds_last_calls = <<>>

\* DomSolver::insert_css_constraints (lines 145-148)
InsertCssConstraints(constraints) ==
    LET r == add_constraints(ds_solver, constraints)
    IN  /\ ds_solver' = r.solver
        /\ ds_panicked' = IF r.ok THEN ds_panicked
                          ELSE ds_panicked \cup {"insert_css_constraints"}
        /\ ds_last_calls' = NoteCall(ds_last_calls, "insert_css_constraints")
        /\ UNCHANGED <<ds_added_constraints, ds_root_constraints>>
        /\ UNCHANGED not_ds_vars

\* DomSolver::update_window_size (lines 150-154)
UpdateWindowSize(window_size) ==
    LET s1 == suggest_value(ds_solver, ds_root_constraints.width_var, window_size.width)
        s2 == IF s1.ok
              THEN suggest_value(s1.solver, ds_root_constraints.height_var,
                                 window_size.height)
              ELSE s1
    IN  /\ ds_solver' = s2.solver
        /\ ds_panicked' = IF s2.ok THEN ds_panicked
                          ELSE ds_panicked \cup {"update_window_size"}
        /\ ds_last_calls' = NoteCall(ds_last_calls, "update_window_size")
        /\ UNCHANGED <<ds_added_constraints, ds_root_constraints>>
        /\ UNCHANGED not_ds_vars

\* DomSolver::push_added_constraints (lines 201-205)
PushAddedConstraints(rect_id, constraints) ==
    /\ Len(RecordedConstraints(ds_added_constraints)) + Len(constraints) <= MaxRecorded
    /\ ds_added_constraints' =
           ExtendMap(ds_added_constraints, rect_id,
                     (IF rect_id \in DOMAIN ds_added_constraints
                      THEN ds_added_constraints[rect_id] ELSE <<>>) \o constraints)
    /\ ds_last_calls' = NoteCall(ds_last_calls, "push_added_constraints")
    /\ UNCHANGED <<ds_solver, ds_root_constraints, ds_panicked>>
    /\ UNCHANGED not_ds_vars

\* the loop of clear_all_constraints: remove_constraint one by one, up to
\* the first error
RECURSIVE RemoveConstraints(_, _)
RemoveConstraints(s, constraints) ==
    IF constraints = <<>> THEN SolverOk(s)
    ELSE LET r == remove_constraint(s, Head(constraints))
         IN  IF r.ok THEN RemoveConstraints(r.solver, Tail(constraints)) ELSE r

\* DomSolver::clear_all_constraints (lines 207-215): the panic of an unwrap()
\* leaves added_constraints as it is
ClearAllConstraints ==
    LET r == RemoveConstraints(ds_solver, RecordedConstraints(ds_added_constraints))
    IN  /\ ds_solver' = r.solver
        /\ ds_added_constraints' = IF r.ok THEN NoAddedConstraints
                                   ELSE ds_added_constraints
        /\ ds_panicked' = IF r.ok THEN ds_panicked
                          ELSE ds_panicked \cup {"clear_all_constraints"}
        /\ ds_last_calls' = NoteCall(ds_last_calls, "clear_all_constraints")
        /\ UNCHANGED ds_root_constraints
        /\ UNCHANGED not_ds_vars

-----------------------------------------------------------------------------
(* Nothing has been called yet on the functions that are checked on their own *)

PureIdle == HitsIdle /\ XfIdle /\ AncIdle /\ DomIdIdle /\ RelIdle /\ SalIdle /\ DsIdle

-----------------------------------------------------------------------------
(* The frame loop of the module documentation: window_state.rs:18-63 *)

\* the Events value before the first frame
NoEvents ==
    [ window_events |-> {}, hover_events |-> {}, focus_events |-> {},
      old_hit_node_ids |-> EmptyHoveredNodes, old_focus_node |-> None,
      current_window_state_mouse_is_down |-> FALSE,
      previous_window_state_mouse_is_down |-> FALSE,
      event_was_mouse_down |-> FALSE, event_was_mouse_leave |-> FALSE,
      event_was_mouse_release |-> FALSE ]

FrameIdle ==
    /\ previous_window_state = None
    /\ current_window_state = DefaultWindowState
    /\ events = NoEvents
    /\ events_input = [current |-> DefaultWindowState, previous |-> None]
    /\ hit_test = EmptyHitTest
    /\ nodes_to_check = NodesToCheckEmpty(FALSE)
    /\ frame = 0

FrameInit == FrameIdle /\ ChangesIdle /\ SyncIdle /\ CallIdle /\ PrefIdle /\ PureIdle

\* One pass of the loop body: the windowing library has updated the window
\* state to `os_state`, the hit test of this frame returns `hit`.
FrameStep(os_state, hit) ==
    /\ frame' = frame + 1
    /\ events' = EventsNew(os_state, previous_window_state)
    /\ events_input' = [current |-> os_state, previous |-> previous_window_state]
    /\ hit_test' = hit
    /\ previous_window_state' = Some(os_state)
    /\ current_window_state' =
           [os_state EXCEPT !.focused_node = HitFocusToDomNodeId(hit.focused_node),
                            !.hovered_nodes = hit.hovered_nodes]
    /\ nodes_to_check' = NodesToCheckNew(hit, events')
    /\ UNCHANGED not_frame_vars

Frame(os_state, hit) ==
    /\ frame < MaxFrames
    /\ FrameStep(os_state, hit)

\* --- what the windowing library can change between two frames ---

OsFlags(ws) ==
    { [ws EXCEPT !.has_focus = ~ws.has_focus],
      [ws EXCEPT !.is_about_to_close = ~ws.is_about_to_close] }

OsSize(ws) ==
    {[ws EXCEPT !.dimensions = v] : v \in Vals \ {ws.dimensions}}
    \cup {[ws EXCEPT !.hidpi_factor = v] : v \in Vals \ {ws.hidpi_factor}}
    \cup {[ws EXCEPT !.system_hidpi_factor = v] : v \in Vals \ {ws.system_hidpi_factor}}

OsPosition(ws) ==
    {[ws EXCEPT !.position = p] : p \in WindowPositions \ {ws.position}}

OsCursor(ws) ==
    {[ws EXCEPT !.cursor_position = c] : c \in CursorPositions \ {ws.cursor_position}}

\* one button is pressed or released
OsButtonToggles(ws) ==
    { [ws EXCEPT !.left_down = ~ws.left_down],
      [ws EXCEPT !.right_down = ~ws.right_down],
      [ws EXCEPT !.middle_down = ~ws.middle_down] }

\* any change of the three buttons between two frames
OsButtons(ws) ==
    {[ws EXCEPT !.left_down = l, !.right_down = r, !.middle_down = m] :
        l \in BOOLEAN, r \in BOOLEAN, m \in BOOLEAN} \ {ws}

OsScroll(ws) ==
    {[ws EXCEPT !.scroll_x = o] : o \in OptionOf(Vals) \ {ws.scroll_x}}
    \cup {[ws EXCEPT !.scroll_y = o] : o \in OptionOf(Vals) \ {ws.scroll_y}}

OsKeyboard(ws) ==
    {[ws EXCEPT !.current_virtual_keycode = o] :
        o \in OptionOf(Vals) \ {ws.current_virtual_keycode}}
    \cup {[ws EXCEPT !.current_char = o] : o \in OptionOf(Vals) \ {ws.current_char}}

OsFiles(ws) ==
    {[ws EXCEPT !.hovered_file = o] : o \in OptionOf(Vals) \ {ws.hovered_file}}
    \cup {[ws EXCEPT !.dropped_file = o] : o \in OptionOf(Vals) \ {ws.dropped_file}}

OsTheme(ws) ==
    {[ws EXCEPT !.theme = t] : t \in Themes \ {ws.theme}}

\* --- what the hit test can report, relative to the last frame's report ---

\* one DOM is hit for the first time, one is no longer hit, or one node of a
\* hit DOM enters or leaves the hit nodes
HoveredEdits(m) ==
    {[d \in (DOMAIN m) \cup {x} |-> IF d = x THEN s ELSE m[d]] :
        x \in DomIds \ DOMAIN m, s \in {{}} \cup {{n} : n \in NodeIds}}
    \cup {[d \in (DOMAIN m) \ {x} |-> m[d]] : x \in DOMAIN m}
    \cup UNION {{[m EXCEPT ![d] = (m[d] \ {n}) \cup ({n} \ m[d])] : n \in NodeIds} :
                d \in DOMAIN m}

HitFocusTargets == OptionOf(DomIds \X NodeIds)

\* --- frames ---

FrameIdentical == Frame(current_window_state, hit_test)
FrameFlags == \E s \in OsFlags(current_window_state) : Frame(s, hit_test)
FrameSize == \E s \in OsSize(current_window_state) : Frame(s, hit_test)
FramePosition == \E s \in OsPosition(current_window_state) : Frame(s, hit_test)
FrameCursor == \E s \in OsCursor(current_window_state) : Frame(s, hit_test)
FrameButtons == \E s \in OsButtons(current_window_state) : Frame(s, hit_test)
FrameScroll == \E s \in OsScroll(current_window_state) : Frame(s, hit_test)
FrameKeyboard == \E s \in OsKeyboard(current_window_state) : Frame(s, hit_test)
FrameFiles == \E s \in OsFiles(current_window_state) : Frame(s, hit_test)
FrameTheme == \E s \in OsTheme(current_window_state) : Frame(s, hit_test)

EventsNext ==
    \/ FrameIdentical
    \/ FrameFlags
    \/ FrameSize
    \/ FramePosition
    \/ FrameCursor
    \/ FrameButtons
    \/ FrameScroll
    \/ FrameKeyboard
    \/ FrameFiles
    \/ FrameTheme

\* Frames in which the windowing library changes any one part of the window
\* state (or nothing) and the hit test reports what it reported before.
SpecEvents == FrameInit /\ [][EventsNext]_vars

\* --- the first frame of a window created in any state ---

\* the FullWindowState of a window that has just been created
FirstWindowStates ==
    {[DefaultWindowState EXCEPT !.is_about_to_close = c, !.cursor_position = p,
                                !.left_down = l, !.scroll_x = sx, !.current_char = ch,
                                !.theme = t, !.hovered_nodes = h, !.focused_node = f] :
        c \in BOOLEAN, p \in CursorPositions, l \in BOOLEAN, sx \in OptionOf(Vals),
        ch \in OptionOf(Vals), t \in Themes,
        h \in {EmptyHoveredNodes} \cup {[d \in {0} |-> {n}] : n \in NodeIds},
        f \in OptionOf(DomNodeIds)}

FirstFrameInit ==
    /\ previous_window_state = None
    /\ current_window_state \in FirstWindowStates
    /\ events = NoEvents
    /\ events_input = [current |-> DefaultWindowState, previous |-> None]
    /\ hit_test = EmptyHitTest
    /\ nodes_to_check = NodesToCheckEmpty(FALSE)
    /\ frame = 0
    /\ ChangesIdle /\ SyncIdle /\ CallIdle /\ PrefIdle /\ PureIdle

\* the first pass of the loop body: there is no previous window state
FirstFrame ==
    /\ frame = 0
    /\ previous_window_state = None
    /\ FrameStep(current_window_state, hit_test)

SpecFirstFrame == FirstFrameInit /\ [][FirstFrame]_vars

\* --- frames of the user scrolling ---

ScrollFrameIdentical ==
    /\ frame < MaxScrollFrames
    /\ FrameStep(current_window_state, hit_test)

ScrollFrameChange ==
    /\ frame < MaxScrollFrames
    /\ \E s \in OsScroll(current_window_state) : FrameStep(s, hit_test)

ScrollNext ==
    \/ ScrollFrameIdentical
    \/ ScrollFrameChange

\* Frames in which a scroll amount appears, changes or disappears, or nothing
\* changes.
SpecScroll == FrameInit /\ [][ScrollNext]_vars

\* --- frames of the pointer moving over the DOMs ---

HitTestHovering(m) == [hovered_nodes |-> m, focused_node |-> hit_test.focused_node]

FrameHoverChange ==
    \E m \in HoveredEdits(hit_test.hovered_nodes) :
        Frame(current_window_state, HitTestHovering(m))

HoverNext ==
    \/ FrameIdentical
    \/ FrameCursor
    \/ FrameHoverChange

\* Frames in which the cursor position changes, or the hit test reports a hit
\* map one step from the last one, or nothing changes.
SpecHover == FrameInit /\ [][HoverNext]_vars

\* --- frames of mouse buttons and focus ---

HitTestFocusing(f) == [hovered_nodes |-> hit_test.hovered_nodes, focused_node |-> f]

FrameFocusRest ==
    \E f \in HitFocusTargets : Frame(current_window_state, HitTestFocusing(f))

FrameFocusButton ==
    \E s \in OsButtonToggles(current_window_state), f \in HitFocusTargets :
        Frame(s, HitTestFocusing(f))

FocusNext ==
    \/ FrameFocusRest
    \/ FrameFocusButton

\* Frames in which one mouse button changes (or none) and the hit test reports
\* any focusable node (or none) under the cursor.
SpecFocus == FrameInit /\ [][FocusNext]_vars

\* --- frames of the hit test moving hover and focus ---

\* the hit map changes and a node that is now hit becomes the focusable node
FrameHoverAndFocusChange ==
    \E m \in HoveredEdits(hit_test.hovered_nodes) :
        \E f \in {Some(p) : p \in Pairs(m)} :
            Frame(current_window_state, [hovered_nodes |-> m, focused_node |-> f])

LiftNext ==
    \/ FrameIdentical
    \/ FrameHoverChange
    \/ FrameFocusRest
    \/ FrameHoverAndFocusChange

\* Frames in which the window state stays as it is and the hit test reports a
\* hit map one step from the last one, or any focusable node, or both, or the
\* same as before.
SpecLift == FrameInit /\ [][LiftNext]_vars

-----------------------------------------------------------------------------
(* Further specifications *)

\* Any StyleAndLayoutChanges value, queried in any order.
ChangesInit == ChangesInput /\ FrameIdle /\ SyncIdle /\ CallIdle /\ PrefIdle /\ PureIdle
SpecChanges == ChangesInit /\ [][ChangesNext]_vars

\* One call() over any scheduled callbacks of at most MaxCallbacks entries and
\* any hierarchies; every callback may or may not set stop_propagation, and
\* does nothing else.

\* the maps CallbacksOfHitTest::new can build for the DOMs d..MaxDomId with at
\* most `budget` entries: a DOM has an entry only if a callback was pushed
CallbackMapsFrom(d0, budget0) ==
    LET RECURSIVE From(_, _)
        From(d, budget) ==
            IF d > MaxDomId THEN {[x \in {} |-> <<>>]}
            ELSE From(d + 1, budget)
                 \cup UNION {{ExtendMap(m, d, v) :
                                m \in From(d + 1, budget - k), v \in CallbackVecs(k)} :
                             k \in 1..budget}
    IN  From(d0, budget0)

\* the part of a LayoutResult that call() reads
LayoutResultOf(h, nl, scrollable) ==
    [node_hierarchy |-> h, non_leaf_nodes |-> nl, overflowing_nodes |-> scrollable]

\* the layout results of all DOMs.  The dispatch in a DOM reads the hierarchy
\* of that DOM only, and the DOMs of the window are given the same one.
DispatchLayoutResults ==
    UNION {{[d \in DomIds |-> LayoutResultOf(h, nl, {})] : nl \in NonLeafNodeOrders(h)} :
            h \in Hierarchies}

DispatchInit ==
    /\ nodes_with_callbacks \in CallbackMapsFrom(0, MaxCallbacks)
    /\ layout_results \in DispatchLayoutResults
    /\ call_focused_node = None
    /\ modifiable_scroll_states = EmptyScrollMap
    /\ CallEntered
    /\ FrameIdle /\ ChangesIdle /\ SyncIdle /\ PrefIdle /\ PureIdle

InvokeQuietCallback ==
    \E stop \in BOOLEAN : InvokeCallback(CallbackOutcome(stop, "DoNothing", None, None))

DispatchNext ==
    \/ InvokeQuietCallback
    \/ CallReturn

SpecCall == DispatchInit /\ [][DispatchNext]_vars

\* every node but the root is a child of the root
FlatHierarchy == [n \in 1..MaxTreeNode |-> 0]

\* the layout results of DOMs with that hierarchy and the given scroll nodes
FlatLayoutResults(scrollable) ==
    [d \in DomIds |-> LayoutResultOf(FlatHierarchy, <<0>>, scrollable)]

\* One call() in which every callback returns any UpdateScreen value and may
\* set stop_propagation.  What is folded into `ret` does not depend on the
\* hierarchy, which is flat here.
ScreenInit ==
    /\ nodes_with_callbacks \in CallbackMapsFrom(0, MaxCallbacks)
    /\ layout_results = FlatLayoutResults({})
    /\ call_focused_node = None
    /\ modifiable_scroll_states = EmptyScrollMap
    /\ CallEntered
    /\ FrameIdle /\ ChangesIdle /\ SyncIdle /\ PrefIdle /\ PureIdle

InvokeScreenCallback ==
    \E stop \in BOOLEAN, callback_return \in UpdateScreens :
        InvokeCallback(CallbackOutcome(stop, callback_return, None, None))

ScreenNext ==
    \/ InvokeScreenCallback
    \/ CallReturn

SpecCallScreen == ScreenInit /\ [][ScreenNext]_vars

\* what a callback does with its focus target: nothing, or it sets the target
\* to the root of DOM 0, to a node that DOM 0 does not have, or to NoFocus
FocusRequests ==
    {None, Some(FocusTargetId(0, 0)), Some(FocusTargetId(0, MaxTreeNode + 1)),
     Some(FocusTargetNoFocus)}

\* full_window_state.focused_node: no node, or a node of DOM 0
FocusedNodes == {None} \cup {Some(DomNodeId(0, Some(n))) : n \in 0..1}

\* One call() with any focused node, in which every callback may set a focus
\* target and may set stop_propagation.
FocusCallInit ==
    /\ nodes_with_callbacks \in CallbackMapsFrom(0, MaxCallbacks)
    /\ layout_results = FlatLayoutResults({})
    /\ call_focused_node \in FocusedNodes
    /\ modifiable_scroll_states = EmptyScrollMap
    /\ CallEntered
    /\ FrameIdle /\ ChangesIdle /\ SyncIdle /\ PrefIdle /\ PureIdle

InvokeFocusCallback ==
    \E stop \in BOOLEAN, focus \in FocusRequests :
        InvokeCallback(CallbackOutcome(stop, "DoNothing", focus, None))

FocusCallNext ==
    \/ InvokeFocusCallback
    \/ CallReturn

SpecCallFocus == FocusCallInit /\ [][FocusCallNext]_vars

\* One call() in which every callback may scroll a node of DOM 0 and may set
\* stop_propagation.  Node 1 of every DOM is an overflowing scroll node, the
\* other nodes are not.  `layout_results` is a slice indexed by DomId: it has
\* a layout result for DOM 0, and for the DOMs after it up to any DomId.
ScrollLayoutResults ==
    {[d \in 0..n |-> LayoutResultOf(FlatHierarchy, <<0>>, {1})] : n \in DomIds}

\* nodes_scrolled_in_callbacks.entry(dom).insert(node, position): what a
\* callback asks for, nothing or a position of a node of DOM 0
ScrollRequests ==
    {None} \cup {Some([key |-> <<0, n>>, position |-> p]) : n \in 1..MaxTreeNode, p \in 1..MaxPx}

ScrollCallInit ==
    /\ nodes_with_callbacks \in CallbackMapsFrom(0, MaxCallbacks)
    /\ layout_results \in ScrollLayoutResults
    /\ call_focused_node = None
    /\ modifiable_scroll_states = EmptyScrollMap
    /\ CallEntered
    /\ FrameIdle /\ ChangesIdle /\ SyncIdle /\ PrefIdle /\ PureIdle

InvokeScrollCallback ==
    \E stop \in BOOLEAN, scroll \in ScrollRequests :
        InvokeCallback(CallbackOutcome(stop, "DoNothing", None, scroll))

ScrollCallNext ==
    \/ InvokeScrollCallback
    \/ CallReturn

SpecCallScroll == ScrollCallInit /\ [][ScrollCallNext]_vars

\* A DomSolver made for any size, and then any of its methods that reach the
\* solver, in any order and with any arguments; a caller that catches the
\* unwinding of a panic goes on with the DomSolver as the panic left it.
\* update_dom and update_layout_cache are left out: they write the caches
\* and solved_values, and neither adds nor removes anything in the solver.
SolverConstraints == 1..MaxConstraints
ConstraintVecs == SeqsUpTo(SolverConstraints, 2)
SolverRectIds == {0, 1}
WindowSizes == {LayoutSize(1, 2), LayoutSize(2, 1)}

OtherThanDsIdle ==
    /\ FrameIdle /\ ChangesIdle /\ SyncIdle /\ CallIdle /\ PrefIdle
    /\ HitsIdle /\ XfIdle /\ AncIdle /\ DomIdIdle /\ RelIdle /\ SalIdle

DomSolverInit ==
    /\ \E size \in WindowSizes : DomSolverNew(size)
    /\ OtherThanDsIdle

CallInsertCssConstraints == \E constraints \in ConstraintVecs : InsertCssConstraints(constraints)
CallUpdateWindowSize == \E window_size \in WindowSizes : UpdateWindowSize(window_size)
CallPushAddedConstraints ==
    \E rect_id \in SolverRectIds, constraints \in ConstraintVecs :
        PushAddedConstraints(rect_id, constraints)

DomSolverNext ==
    \/ CallInsertCssConstraints
    \/ CallUpdateWindowSize
    \/ CallPushAddedConstraints
    \/ ClearAllConstraints

SpecDomSolver == DomSolverInit /\ [][DomSolverNext]_vars

\* The two functions applied to any RectLayout.
PrefInit ==
    /\ rect_layout \in RectLayouts
    /\ preferred_width = None
    /\ preferred_height = None
    /\ FrameIdle /\ ChangesIdle /\ SyncIdle /\ CallIdle /\ PureIdle

SpecPreferred == PrefInit /\ [][PrefNext]_vars

\* Restyles and synchronize() calls in any order, from an empty cache.
\* --- get_hits on layouts with any rectangles and tags ---

\* node 0 scrolls and has the scroll tag 0
OneScrolledNode ==
    ScrolledNodesOf([t \in {0} |-> AzFromCrateInternal(Some(0))],
                    {AzFromCrateInternal(Some(0))})

HitsInit ==
    /\ hit_layout_result \in
           {HitLayoutResult(tags,
                [n \in NodeIds |-> PositionedRectangle(x[n], y[n])],
                [n \in NodeIds |-> w[n]],
                [n \in NodeIds |-> SolvedRect(1, 2)],
                OneScrolledNode) :
              tags \in TagVecs, x \in [NodeIds -> StaticOffsets],
              y \in [NodeIds -> StaticOffsets], w \in [NodeIds -> SolvedSizes]}
    /\ hits_input = [cursor |-> LayoutPoint(0, 0), scroll_states |-> [k \in {} |-> 0]]
    /\ hits_ret = None
    /\ FrameIdle /\ ChangesIdle /\ SyncIdle /\ CallIdle /\ PrefIdle
    /\ XfIdle /\ AncIdle /\ DomIdIdle /\ RelIdle /\ SalIdle /\ DsIdle

GetHitsAtCursor ==
    \E cursor \in HitCursors,
       scroll_states \in PartialMaps({0}, {LayoutPoint(1, 0)}) :
        GetHits(cursor, scroll_states)

SpecHits == HitsInit /\ [][GetHitsAtCursor]_vars

\* --- get_hits on layouts with any scrollable nodes, under any scroll states ---

HitsScrollInit ==
    /\ hit_layout_result \in
           {HitLayoutResult(<<AzFromCrateInternal(Some(0))>>,
                [n \in NodeIds |-> PositionedRectangle(1, 1)],
                [n \in NodeIds |-> SolvedRect(2, 2)],
                [n \in NodeIds |-> SolvedRect(1, 2)],
                ScrolledNodesOf(t, o)) :
              t \in ScrollTagMaps, o \in SUBSET AzNodeIds}
    /\ hits_input = [cursor |-> LayoutPoint(0, 0), scroll_states |-> [k \in {} |-> 0]]
    /\ hits_ret = None
    /\ FrameIdle /\ ChangesIdle /\ SyncIdle /\ CallIdle /\ PrefIdle
    /\ XfIdle /\ AncIdle /\ DomIdIdle /\ RelIdle /\ SalIdle /\ DsIdle

GetHitsScrolled ==
    \E cursor \in HitCursors, scroll_states \in ScrollStatesMaps :
        GetHits(cursor, scroll_states)

SpecHitsScroll == HitsScrollInit /\ [][GetHitsScrolled]_vars

\* --- one call of a function of ComputedTransform3D ---

SpecTransform == FrameInit /\ [][TransformNext]_vars

\* --- get_nearest_positioned_ancestor on any tree with any positions ---

AncestorInit ==
    /\ anc_arena \in Arenas
    /\ anc_start_node_id = None
    /\ anc_current_node = 0
    /\ anc_ret = None
    /\ FrameIdle /\ ChangesIdle /\ SyncIdle /\ CallIdle /\ PrefIdle
    /\ HitsIdle /\ XfIdle /\ DomIdIdle /\ RelIdle /\ SalIdle /\ DsIdle

SpecAncestor == AncestorInit /\ [][AncestorNext]_vars

\* --- threads calling new_dom_id ---

SpecDomId == FrameInit /\ [][DomIdNext]_vars

\* --- StyleAndLayoutChanges::new ---

\* nodes without pseudo-state properties and nodes with some, of both kinds
StyledNodeSamples ==
    { StyledNode(<<>>, <<>>, <<>>),
      StyledNode(<<"TextColor", "Width">>, <<"Width", "Opacity">>, <<"Transform">>),
      StyledNode(<<"Width">>, <<>>, <<"TextColor", "Width">>),
      StyledNode(<<"Opacity">>, <<"TextColor">>, <<>>) }

\* the styled nodes of a DOM: node 0 and the other nodes
StyledDoms == {[n \in NodeIds |-> IF n = 0 THEN a ELSE b] : a, b \in StyledNodeSamples}

\* the rectangle of node n, in half pixels
RestyleRects == [n \in NodeIds |-> SizedRectangle(2 * n + 1, n, 3, 2 * n + 2)]

\* a window of DOMs without parent
RootLayoutResults(styled_nodes) ==
    [i \in 1..(MaxDomId + 1) |->
        RestyledLayoutResult(styled_nodes, None, [n \in {} |-> 0], RestyleRects)]

\* a window in which DOM 1 is the DOM of the iframe node `iframe_nodes` of DOM 0
NestedLayoutResults(styled_nodes, iframe_nodes) ==
    [i \in 1..(MaxDomId + 1) |->
        RestyledLayoutResult(styled_nodes,
                             IF i = 2 THEN Some(0) ELSE None,
                             IF i = 1 THEN [n \in iframe_nodes |-> 1] ELSE [n \in {} |-> 0],
                             RestyleRects)]

EnterSamples ==
    { EmptyHoveredNodes, [d \in {0} |-> {}], [d \in {0} |-> {0}], [d \in {0} |-> {0, 1}],
      [d \in {1} |-> {1}], [d \in {0, 1} |-> {0}] }

LeaveSamples == {EmptyHoveredNodes, [d \in {0} |-> {1}], [d \in {1} |-> {0}]}

CssChangeSamples ==
    { EmptyChanges,
      [d \in {0} |-> [n \in {0} |-> <<CssProperty("Width", TRUE), CssProperty("TextColor", TRUE)>>]],
      [d \in {1} |-> [n \in {1} |-> <<CssProperty("Opacity", FALSE), CssProperty("Width", TRUE)>>]] }

RestyleNodesToCheck(enter, leave, old_focus, new_focus, mouse_down) ==
    [NodesToCheckEmpty(mouse_down) EXCEPT
        !.onmouseenter_nodes = enter, !.onmouseleave_nodes = leave,
        !.old_focus_node = old_focus, !.new_focus_node = new_focus]

RestyleInput(nodes, results, window_size, css_changes, callbacks_new_focus, relayout_cb) ==
    [nodes |-> nodes, layout_results |-> results, window_size |-> window_size,
     css_changes |-> css_changes, callbacks_new_focus |-> callbacks_new_focus,
     relayout_cb |-> relayout_cb]

OtherThanSalIdle ==
    /\ FrameIdle /\ ChangesIdle /\ SyncIdle /\ CallIdle /\ PrefIdle
    /\ HitsIdle /\ XfIdle /\ AncIdle /\ DomIdIdle /\ RelIdle /\ DsIdle

\* every DOM has a layout result and no parent; hover, active and focus
\* restyles and CSS overrides of all kinds
RestyleInit ==
    /\ sal_input \in
         {RestyleInput(RestyleNodesToCheck(el[1], el[2], o, n, down),
                       RootLayoutResults(styled),
                       LayoutSize(4, 3), css, cf, [d \in DomIds |-> <<0>>]) :
             el \in {x \in EnterSamples \X LeaveSamples : Pairs(x[1]) \cap Pairs(x[2]) = {}},
             o \in {None, Some(DomNodeId(0, Some(0)))},
             n \in {None, Some(DomNodeId(0, Some(1))), Some(DomNodeId(1, Some(0)))},
             down \in BOOLEAN, styled \in StyledDoms, css \in CssChangeSamples,
             cf \in {None, Some(None), Some(Some(DomNodeId(0, Some(1))))}}
    /\ sal_ret = None
    /\ sal_relayout_calls = <<>>
    /\ sal_panicked = FALSE
    /\ OtherThanSalIdle

SpecRestyle == RestyleInit /\ [][CallStyleAndLayoutChangesNew]_vars

\* DOM 1 is nested in DOM 0 or has no parent; relayout_cb reports any nodes
RelayoutInit ==
    /\ sal_input \in
         {RestyleInput(RestyleNodesToCheck(e, EmptyHoveredNodes, None, None, FALSE),
                       results, window_size, css, None, cb) :
             e \in EnterSamples,
             results \in {RootLayoutResults(styled) : styled \in StyledDoms}
                         \cup {NestedLayoutResults(styled, f) :
                                  styled \in StyledDoms, f \in (SUBSET NodeIds) \ {{}}},
             window_size \in {LayoutSize(4, 3), LayoutSize(0, 0)},
             css \in CssChangeSamples,
             cb \in [DomIds -> {<<>>, <<0>>}]}
    /\ sal_ret = None
    /\ sal_relayout_calls = <<>>
    /\ sal_panicked = FALSE
    /\ OtherThanSalIdle

SpecRelayout == RelayoutInit /\ [][CallStyleAndLayoutChangesNew]_vars

\* inputs of any shape: fewer layout results than DOMs, focus nodes whose node
\* id is None, a nested DOM that its parent has no iframe node for
AnyRestyleInit ==
    /\ sal_input \in
         {RestyleInput(RestyleNodesToCheck(e, EmptyHoveredNodes, o, n, FALSE),
                       results, LayoutSize(4, 3), css, None, [d \in DomIds |-> <<0>>]) :
             e \in EnterSamples,
             o \in {None, Some(DomNodeId(0, Some(0))), Some(DomNodeId(0, None))},
             n \in {None, Some(DomNodeId(0, Some(1))), Some(DomNodeId(1, None))},
             results \in UNION {{RootLayoutResults(styled),
                                 SubSeq(RootLayoutResults(styled), 1, 1),
                                 NestedLayoutResults(styled, {0}),
                                 NestedLayoutResults(styled, {})} : styled \in StyledDoms},
             css \in CssChangeSamples}
    /\ sal_ret = None
    /\ sal_relayout_calls = <<>>
    /\ sal_panicked = FALSE
    /\ OtherThanSalIdle

SpecNewAnyInput == AnyRestyleInit /\ [][CallStyleAndLayoutChangesNew]_vars

\* --- calculate_from_relative_parent on any constraint and parent width ---

SpecRelativeParent == FrameInit /\ [][CallCalculateFromRelativeParent]_vars

SyncInit == SyncIdle /\ FrameIdle /\ ChangesIdle /\ CallIdle /\ PrefIdle /\ PureIdle
SpecSync == SyncInit /\ [][SyncNext]_vars

-----------------------------------------------------------------------------
(* Properties of Events::new *)

\* the last frame called Events::new(s, Some(s))
SameStateFrame ==
    /\ frame > 0
    /\ events_input.previous = Some(events_input.current)

\* the window state of the last frame raises none of the events that
\* get_window_events derives from the current state alone
Quiet(ws) ==
    /\ ~ws.is_about_to_close
    /\ IsNone(ws.current_char)
    /\ IsNone(ws.scroll_x)
    /\ IsNone(ws.scroll_y)

\* C1 (as stated): for every window state s, also one with is_about_to_close
\* set, current_char set or a scroll amount present, Events::new(s, Some(s))
\* has no window, hover or focus events.
C1_SameStateNoEvents ==
    SameStateFrame => EventsIsEmpty(events)

\* C1 (amended): for every window state s with is_about_to_close unset, no
\* current_char and neither scroll_x nor scroll_y present,
\* Events::new(s, Some(s)) has no window, hover or focus events.
C1_QuietSameStateNoEvents ==
    (SameStateFrame /\ Quiet(events_input.current)) => EventsIsEmpty(events)

\* C1 witness: a frame repeats a quiet state in which a button is held and the
\* cursor is inside the window, and Events::new reports nothing.
C1_Witness ==
    /\ SameStateFrame
    /\ Quiet(events_input.current)
    /\ events_input.current.left_down
    /\ events_input.current.cursor_position.tag = "InWindow"
    /\ EventsIsEmpty(events)

\* scroll_x or scroll_y is present in the window state
IsScrolling(ws) == IsSome(ws.scroll_x) \/ IsSome(ws.scroll_y)

ScrollEvents == {"ScrollStart", "Scroll", "ScrollEnd"}

\* C21 (as stated): in every frame, the first one included, ScrollStart is
\* emitted exactly when a scroll amount is present and none was present in the
\* frame before (or there was no frame before), Scroll exactly when one is
\* present, ScrollEnd exactly when none is present and one was in the frame
\* before.
C21_ScrollEpisodesFromFirstFrame ==
    frame > 0 =>
        LET before == /\ IsSome(events_input.previous)
                      /\ IsScrolling(events_input.previous[1])
            now == IsScrolling(events_input.current)
            ev == events.window_events
        IN  /\ "ScrollStart" \in ev <=> (now /\ ~before)
            /\ "Scroll" \in ev <=> now
            /\ "ScrollEnd" \in ev <=> (before /\ ~now)

\* the scroll events of a frame follow the presence of a scroll amount now and
\* in the previous snapshot; the first frame has no scroll event
ScrollEventsOfFrame ==
    frame > 0 =>
        LET now == IsScrolling(events_input.current)
            ev == events.window_events
        IN  IF IsNone(events_input.previous)
            THEN ev \cap ScrollEvents = {}
            ELSE LET before == IsScrolling(events_input.previous[1])
                 IN  /\ "ScrollStart" \in ev <=> (now /\ ~before)
                     /\ "Scroll" \in ev <=> now
                     /\ "ScrollEnd" \in ev <=> (before /\ ~now)

\* from one frame to the next: a ScrollStart follows a frame without Scroll
\* and ScrollStart, a ScrollEnd follows a frame with Scroll or the first frame
ScrollEventsOfNextFrame ==
    (frame > 0 /\ frame' = frame + 1) =>
        /\ "ScrollStart" \in events'.window_events =>
               events.window_events \cap {"ScrollStart", "Scroll"} = {}
        /\ "ScrollEnd" \in events'.window_events =>
               \/ "Scroll" \in events.window_events
               \/ IsNone(events_input.previous)
        /\ "ScrollStart" \in events.window_events =>
               events'.window_events \cap {"Scroll", "ScrollEnd"} /= {}

\* C21 (amended): in every frame that has a previous snapshot, ScrollStart is
\* emitted exactly when a scroll amount is present now and none was present
\* before, Scroll exactly when one is present now, ScrollEnd exactly when none
\* is present now and one was before; the first frame emits no scroll event;
\* a ScrollStart is never followed by a ScrollStart without a ScrollEnd
\* between them, and a ScrollEnd follows a frame with Scroll unless the
\* scrolling began in the first frame.
C21_ScrollEpisodesAfterFirstFrame ==
    []ScrollEventsOfFrame /\ [][ScrollEventsOfNextFrame]_vars

\* a second episode of scrolling starts after the first one has ended
C21_Witness ==
    /\ frame >= 4
    /\ "ScrollStart" \in events.window_events
    /\ IsScrolling(events_input.previous[1]) = FALSE
    /\ IsNone(current_window_state.scroll_x)
    /\ IsSome(current_window_state.scroll_y)

\* C22: whenever the hovered nodes of the current window state differ from
\* those of the previous one, hover_events holds MouseEnter and MouseLeave,
\* and whenever the focused node differs from the previous one, focus_events
\* holds FocusReceived and FocusLost, also in a frame without window events.
C22_HoverAndFocusSynthesized ==
    frame > 0 =>
        LET cur == events_input.current
            previous == events_input.previous
        IN  /\ cur.hovered_nodes /= EventsOldHitNodeIds(previous) =>
                {"MouseEnter", "MouseLeave"} \subseteq events.hover_events
            /\ cur.focused_node /= EventsOldFocusNode(previous) =>
                {"FocusReceived", "FocusLost"} \subseteq events.focus_events

\* a frame without window events in which both the hovered nodes and the
\* focused node differ from the previous ones, and all four events are there
C22_Witness ==
    /\ frame > 0
    /\ IsSome(events_input.previous)
    /\ events.window_events = {}
    /\ events_input.current.hovered_nodes /= events_input.previous[1].hovered_nodes
    /\ events_input.current.focused_node /= events_input.previous[1].focused_node
    /\ events.hover_events = {"MouseEnter", "MouseLeave"}
    /\ events.focus_events = {"FocusReceived", "FocusLost"}

\* C19: for a previous and a current cursor position, MouseLeave is emitted
\* exactly for InWindow -> OutOfWindow | Uninitialized, MouseEnter exactly for
\* OutOfWindow | Uninitialized -> InWindow, MouseOver exactly for
\* InWindow(a) -> InWindow(b) with a /= b, and never two of the three.
C19_CursorEventsByTransition ==
    (frame > 0 /\ IsSome(events_input.previous)) =>
        LET a == events_input.previous[1].cursor_position
            b == events_input.current.cursor_position
            outside == {"OutOfWindow", "Uninitialized"}
            ev == events.window_events
        IN  /\ "MouseLeave" \in ev <=> (a.tag = "InWindow" /\ b.tag \in outside)
            /\ "MouseEnter" \in ev <=> (a.tag \in outside /\ b.tag = "InWindow")
            /\ "MouseOver" \in ev <=> (a.tag = "InWindow" /\ b.tag = "InWindow" /\ a.p /= b.p)
            /\ Cardinality(ev \cap {"MouseEnter", "MouseLeave", "MouseOver"}) <= 1

\* the cursor has moved inside the window: MouseOver and no MouseEnter
C19_Witness ==
    /\ frame > 0 /\ IsSome(events_input.previous)
    /\ events_input.previous[1].cursor_position.tag = "InWindow"
    /\ events_input.current.cursor_position.tag = "InWindow"
    /\ events_input.previous[1].cursor_position /= events_input.current.cursor_position
    /\ "MouseOver" \in events.window_events
    /\ "MouseEnter" \notin events.window_events

\* C20: every *MouseDown of a button is emitted exactly on its up -> down edge
\* and every *MouseUp exactly on its down -> up edge; MouseDown exactly when no
\* button was down and one is down now, MouseUp exactly when a button was down
\* and none is down now.
C20_ButtonEventsOnEdges ==
    (frame > 0 /\ IsSome(events_input.previous)) =>
        LET prev == events_input.previous[1]
            cur == events_input.current
            ev == events.window_events
            any_before == prev.left_down \/ prev.right_down \/ prev.middle_down
            any_now == cur.left_down \/ cur.right_down \/ cur.middle_down
        IN  /\ "LeftMouseDown" \in ev <=> (~prev.left_down /\ cur.left_down)
            /\ "RightMouseDown" \in ev <=> (~prev.right_down /\ cur.right_down)
            /\ "MiddleMouseDown" \in ev <=> (~prev.middle_down /\ cur.middle_down)
            /\ "LeftMouseUp" \in ev <=> (prev.left_down /\ ~cur.left_down)
            /\ "RightMouseUp" \in ev <=> (prev.right_down /\ ~cur.right_down)
            /\ "MiddleMouseUp" \in ev <=> (prev.middle_down /\ ~cur.middle_down)
            /\ "MouseDown" \in ev <=> (~any_before /\ any_now)
            /\ "MouseUp" \in ev <=> (any_before /\ ~any_now)

\* one of two held buttons has been released: its *MouseUp and no MouseUp
C20_Witness ==
    /\ frame > 0 /\ IsSome(events_input.previous)
    /\ events_input.previous[1].left_down /\ events_input.previous[1].right_down
    /\ ~events_input.current.left_down /\ events_input.current.right_down
    /\ "LeftMouseUp" \in events.window_events
    /\ "MouseUp" \notin events.window_events

\* C39: the window events of a frame never hold both MouseDown and MouseUp;
\* with MouseDown they hold the MouseDown of at least one button, with MouseUp
\* the MouseUp of at least one button.
C39_MouseDownUpExclusiveAndPerButton ==
    frame > 0 =>
        LET ev == events.window_events
        IN  /\ ~({"MouseDown", "MouseUp"} \subseteq ev)
            /\ "MouseDown" \in ev =>
                   ev \cap {"LeftMouseDown", "RightMouseDown", "MiddleMouseDown"} /= {}
            /\ "MouseUp" \in ev =>
                   ev \cap {"LeftMouseUp", "RightMouseUp", "MiddleMouseUp"} /= {}

\* two held buttons are released in one frame while the third stays up:
\* MouseUp with the MouseUp of both buttons
C39_Witness ==
    /\ frame > 0 /\ IsSome(events_input.previous)
    /\ {"MouseUp", "LeftMouseUp", "MiddleMouseUp"} \subseteq events.window_events
    /\ "MouseDown" \notin events.window_events

\* C40: Events::new without a previous window state gives no window events
\* and no hover events, whatever the current state holds, and gives the focus
\* events FocusReceived and FocusLost exactly when the current state has a
\* focused node (and no focus event otherwise).
C40_FirstFrameOnlyFocusEvents ==
    (frame > 0 /\ IsNone(events_input.previous)) =>
        /\ events.window_events = {}
        /\ events.hover_events = {}
        /\ events.focus_events =
               IF IsSome(events_input.current.focused_node)
               THEN {"FocusReceived", "FocusLost"} ELSE {}

\* the first frame of a window that is closing, has a button down, a scroll
\* amount, hovered nodes and a focused node: only the focus events
C40_Witness ==
    /\ frame > 0 /\ IsNone(events_input.previous)
    /\ events_input.current.is_about_to_close
    /\ events_input.current.left_down
    /\ IsSome(events_input.current.scroll_x)
    /\ events_input.current.hovered_nodes /= EmptyHoveredNodes
    /\ IsSome(events_input.current.focused_node)
    /\ events.window_events = {}
    /\ events.focus_events = {"FocusReceived", "FocusLost"}

-----------------------------------------------------------------------------
(* Properties of LayoutResult::get_hits *)

\* the nodes with an entry in tag_ids_to_node_ids
HitTagged(layout) ==
    {n \in NodeIds : \E i \in 1..Len(layout.tag_ids_to_node_ids) :
                        layout.tag_ids_to_node_ids[i] = Some(n)}

\* the rectangle of a node in whole pixels: the rounded static offset, the
\* solved width and height without their fraction
HitRectOf(layout, n) ==
    [x |-> roundf(layout.rects[n].static_x_offset),
     y |-> roundf(layout.rects[n].static_y_offset),
     w |-> AsIsize(total(layout.width_calculated_rects[n])),
     h |-> AsIsize(total(layout.height_calculated_rects[n]))]

InRect(r, p) ==
    /\ r.x <= p.x /\ p.x < r.x + r.w
    /\ r.y <= p.y /\ p.y < r.y + r.h

\* C23: get_hits has a regular HitTestItem for a node if and only if the node
\* has a hit-test tag and its rectangle (static offset, solved width x solved
\* height) contains the cursor; point_in_viewport of the item is the cursor,
\* point_relative_to_item is the cursor minus the origin of the rectangle; no
\* item is recorded when no rectangle contains the cursor.
C23_RegularHitIffTaggedAndContained ==
    IsSome(hits_ret) =>
        LET layout == hit_layout_result
            cursor == hits_input.cursor
            regular == hits_ret[1].regular_hit_test_nodes
        IN  /\ DOMAIN regular =
                   {n \in HitTagged(layout) : InRect(HitRectOf(layout, n), cursor)}
            /\ \A n \in DOMAIN regular :
                   /\ regular[n].point_in_viewport = cursor
                   /\ regular[n].point_relative_to_item =
                          LayoutPoint(cursor.x - HitRectOf(layout, n).x,
                                      cursor.y - HitRectOf(layout, n).y)
            /\ (\A n \in NodeIds : ~InRect(HitRectOf(layout, n), cursor)) =>
                   DOMAIN regular = {}

\* a tagged node is hit one pixel right of its origin, which is not the
\* window origin, while a node without tag under the cursor is not recorded
C23_Witness ==
    /\ IsSome(hits_ret)
    /\ \E n \in DOMAIN hits_ret[1].regular_hit_test_nodes :
           /\ hits_ret[1].regular_hit_test_nodes[n].point_relative_to_item.x = 1
           /\ hits_ret[1].regular_hit_test_nodes[n].point_in_viewport.x = 0
    /\ \E m \in NodeIds \ HitTagged(hit_layout_result) :
           InRect(HitRectOf(hit_layout_result, m), hits_input.cursor)

\* the child rectangle of a scroll node contains the cursor shifted by the
\* rounded scroll position
InScrolledRect(node, cursor, scroll_position) ==
    InRect([x |-> node.child_rect.origin.x, y |-> node.child_rect.origin.y,
            w |-> node.child_rect.size.width, h |-> node.child_rect.size.height],
           LayoutPoint(cursor.x + roundf(scroll_position.x),
                       cursor.y + roundf(scroll_position.y)))

\* the nodes with a scroll tag, an entry in overflowing_nodes and a scroll
\* state under their scroll id
HitScrollable(layout, scroll_states) ==
    {n \in NodeIds :
        /\ \E t \in DOMAIN layout.scrollable_nodes.tags_to_node_ids :
               layout.scrollable_nodes.tags_to_node_ids[t] = Some(n)
        /\ Some(n) \in DOMAIN layout.scrollable_nodes.overflowing_nodes
        /\ layout.scrollable_nodes.overflowing_nodes[Some(n)].parent_external_scroll_id
               \in DOMAIN scroll_states}

\* C24: get_hits has a scroll hit for a node with a scroll tag if and only if
\* the node has an overflowing-node entry and a scroll state and the cursor
\* shifted by the rounded scroll position lies inside child_rect; a tag
\* without entry or without scroll state is skipped and the other tags are
\* treated as without it; point_in_viewport is the cursor as given.
C24_ScrollHitIffShiftedCursorInChildRect ==
    IsSome(hits_ret) =>
        LET layout == hit_layout_result
            cursor == hits_input.cursor
            scroll_states == hits_input.scroll_states
            nodes == layout.scrollable_nodes.overflowing_nodes
            scroll == hits_ret[1].scroll_hit_test_nodes
        IN  /\ DOMAIN scroll =
                   {n \in HitScrollable(layout, scroll_states) :
                       InScrolledRect(nodes[Some(n)], cursor,
                           scroll_states[nodes[Some(n)].parent_external_scroll_id])}
            /\ \A n \in DOMAIN scroll :
                   /\ scroll[n].point_in_viewport = cursor
                   /\ scroll[n].scroll_node = nodes[Some(n)]

\* one scroll tag is skipped for want of a scroll state, and a node of another
\* tag is hit by a cursor that lies outside its child_rect before the shift
C24_Witness ==
    /\ IsSome(hits_ret)
    /\ \E t \in DOMAIN hit_layout_result.scrollable_nodes.tags_to_node_ids :
           LET az == hit_layout_result.scrollable_nodes.tags_to_node_ids[t]
           IN  /\ az \in DOMAIN hit_layout_result.scrollable_nodes.overflowing_nodes
               /\ IsSome(az)
               /\ az[1] \notin DOMAIN hits_input.scroll_states
    /\ \E n \in DOMAIN hits_ret[1].scroll_hit_test_nodes :
           /\ ~InScrolledRect(hits_ret[1].scroll_hit_test_nodes[n].scroll_node,
                               hits_input.cursor, LayoutPoint(0, 0))
           /\ hits_ret[1].scroll_hit_test_nodes[n].point_in_viewport = hits_input.cursor

-----------------------------------------------------------------------------
(* Properties of ComputedTransform3D *)

\* the last call was a call of `fn`
XfCalled(fn) == IsSome(xf_call) /\ xf_call[1].fn = fn

\* C25: transform_point2d returns no result whenever
\* w = p.x * m[0][3] + p.y * m[1][3] + m[3][3] is less than or equal to zero,
\* w = 0 included, and (x / w, y / w) otherwise; on IDENTITY it returns p.
C25_PointProjectedUnlessWNotPositive ==
    XfCalled("transform_point2d") =>
        LET self == xf_call[1].self
            p == xf_call[1].p
            r == xf_ret[1]
            w == p.x * self[0][3] + p.y * self[1][3] + self[3][3]
            x == p.x * self[0][0] + p.y * self[1][0] + self[3][0]
            y == p.x * self[0][1] + p.y * self[1][1] + self[3][1]
        IN  /\ w <= 0 => r = None
            /\ w > 0 => /\ IsSome(r)
                        /\ r[1].x.den /= 0 /\ r[1].x.num * w = x * r[1].x.den
                        /\ r[1].y.den /= 0 /\ r[1].y.num * w = y * r[1].y.den
            /\ self = IDENTITY => /\ IsSome(r)
                                  /\ r[1].x.num = p.x * r[1].x.den
                                  /\ r[1].y.num = p.y * r[1].y.den

\* C26: then() is the matrix product: entry [i][j] of self.then(other) is the
\* sum over k of self.m[i][k] * other.m[k][j]; IDENTITY.then(T) = T and
\* T.then(IDENTITY) = T.
C26_ThenIsMatrixProduct ==
    XfCalled("then") =>
        LET self == xf_call[1].self
            other == xf_call[1].other
            r == xf_ret[1]
        IN  /\ \A i \in 0..3, j \in 0..3 :
                   r[i][j] = self[i][0] * other[0][j] + self[i][1] * other[1][j]
                             + self[i][2] * other[2][j] + self[i][3] * other[3][j]
            /\ self = IDENTITY => r = other
            /\ other = IDENTITY => r = self

\* IDENTITY.then(M1).then(M2)...then(Mn) for the first n transforms of a list
RECURSIVE ThenChain(_, _, _, _)
ThenChain(t_vec, transform_origins, percent_resolve, n) ==
    IF n = 0 THEN IDENTITY
    ELSE then(ThenChain(t_vec, transform_origins, percent_resolve, n - 1),
              from_style_transform(t_vec[n], TransformOriginAt(transform_origins, n - 1),
                                   percent_resolve))

\* C27: from_style_transform_vec of a non-empty list [T1..Tn] returns
\* IDENTITY.then(M1).then(M2)...then(Mn) with Mi = from_style_transform(Ti,
\* origin i or origin 0 or the default origin); a list of one translation
\* that is not the identity does not give IDENTITY.
C27_VecIsChainOfThen ==
    (XfCalled("from_style_transform_vec") /\ xf_call[1].t_vec /= <<>>) =>
        LET t_vec == xf_call[1].t_vec
            r == xf_ret[1]
        IN  /\ r = ThenChain(t_vec, xf_call[1].transform_origins,
                             xf_call[1].percent_resolve, Len(t_vec))
            /\ (/\ Len(t_vec) = 1
                /\ t_vec[1].tag \in {"Translate", "TranslateX", "TranslateY", "TranslateZ"}
                /\ from_style_transform(t_vec[1], DefaultTransformOrigin,
                                        xf_call[1].percent_resolve) /= IDENTITY)
                   => r /= IDENTITY

\* C28: Scale(x, y), ScaleX(x), ScaleY(y) and ScaleZ(z) give a diagonal matrix
\* in which every axis the transform does not name has the factor 1.
C28_ScaleKeepsOtherAxes ==
    (XfCalled("from_style_transform")
        /\ xf_call[1].t.tag \in {"Scale", "ScaleX", "ScaleY", "ScaleZ"}) =>
        LET t == xf_call[1].t
            x == IF t.tag \in {"Scale", "ScaleX"} THEN normalized(t.x) ELSE 1
            y == IF t.tag \in {"Scale", "ScaleY"} THEN normalized(t.y) ELSE 1
            z == IF t.tag = "ScaleZ" THEN normalized(t.z) ELSE 1
        IN  xf_ret[1] = Matrix4(x, 0, 0, 0,  0, y, 0, 0,  0, 0, z, 0,  0, 0, 0, 1)

-----------------------------------------------------------------------------
(* Properties of get_nearest_positioned_ancestor *)

\* the nearest proper ancestor of n whose position is set and is not static
NearestNonStaticAncestor(arena, n) ==
    LET RECURSIVE Up(_)
        Up(m) ==
            IF m \notin DOMAIN arena.parent THEN None
            ELSE LET a == arena.parent[m]
                 IN  IF arena.position[a] \notin {None, Some("Static")}
                     THEN Some(a)
                     ELSE Up(a)
    IN  Up(n)

\* C29 (as stated): for a node with position: absolute the function returns the
\* nearest proper ancestor whose position is not static, where an ancestor
\* with no position set counts as static, and None when every ancestor is
\* static or unset.
C29_NearestAncestorNotStaticNorUnset ==
    IsSome(anc_ret) =>
        anc_ret[1] = NearestNonStaticAncestor(anc_arena, anc_start_node_id[1])

-----------------------------------------------------------------------------
(* Properties of new_dom_id *)

\* the number of calls the counter serves before it wraps around to 0
DomIdRange == UsizeModulus - 1

\* the ids that have been handed out: returned, or fetched and about to be
DomIdsHandedOut ==
    {<<"returned", i, dom_ids_returned[i][2]>> : i \in DOMAIN dom_ids_returned}
        \cup {<<"fetched", t, dom_id_fetched[t][1]>> :
                 t \in {u \in DomIdThreads : dom_id_fetched[u] /= None}}

\* C30: while the counter has not wrapped around, the ids of any two calls are
\* distinct, they increase in the order of the calls (of all threads, and so
\* of each thread), and none is TOP_LEVEL_DOM_ID.
C30_DomIdsDistinctIncreasingNotTopLevel ==
    Len(dom_ids_issued) <= DomIdRange =>
        /\ \A i, j \in DOMAIN dom_ids_issued :
               i < j => dom_ids_issued[i] < dom_ids_issued[j]
        /\ \A h, k \in DomIdsHandedOut : h /= k => h[3] /= k[3]
        /\ \A h \in DomIdsHandedOut : h[3] /= TOP_LEVEL_DOM_ID
        /\ \A i, j \in DOMAIN dom_ids_returned :
               (i < j /\ dom_ids_returned[i][1] = dom_ids_returned[j][1])
                   => dom_ids_returned[i][2] < dom_ids_returned[j][2]

\* two threads were inside new_dom_id at once (the one that fetched second
\* returned first), and one thread called it twice
C30_Witness ==
    /\ Len(dom_ids_issued) <= DomIdRange
    /\ \E i, j \in DOMAIN dom_ids_returned :
           /\ i < j
           /\ dom_ids_returned[i][1] /= dom_ids_returned[j][1]
           /\ dom_ids_returned[i][2] > dom_ids_returned[j][2]
    /\ \E i, j \in DOMAIN dom_ids_returned :
           i < j /\ dom_ids_returned[i][1] = dom_ids_returned[j][1]

-----------------------------------------------------------------------------
(* Properties of WhConstraint::calculate_from_relative_parent *)

\* C33: for a constraint with min <= max the result is e for EqualTo(e), the
\* parent width clamped into [min, max] for Between(min, max), and the parent
\* width for Unconstrained.
C33_RelativeParentWidthInsideConstraint ==
    IsSome(rel_call) =>
        LET c == rel_call[1].constraint
            p == rel_call[1].relative_parent_width
            r == rel_ret[1]
        IN  /\ c.tag = "EqualTo" => r = c.min
            /\ (c.tag = "Between" /\ c.min <= c.max) =>
                   /\ c.min <= r /\ r <= c.max
                   /\ r = (IF p < c.min THEN c.min ELSE IF p > c.max THEN c.max ELSE p)
            /\ c.tag = "Unconstrained" => r = p

\* a parent narrower than the minimum of a proper range: the minimum
C33_Witness ==
    /\ IsSome(rel_call)
    /\ rel_call[1].constraint.tag = "Between"
    /\ rel_call[1].constraint.min < rel_call[1].constraint.max
    /\ rel_call[1].relative_parent_width < rel_call[1].constraint.min
    /\ rel_ret = Some(rel_call[1].constraint.min)

-----------------------------------------------------------------------------
(* Properties of StyleAndLayoutChanges::new *)

CssPropertyTypes == StylePropertyTypes \cup RelayoutPropertyTypes

\* how often the property type t is in a Vec<ChangedCssProperty>
CountOf(props, t) == Cardinality({i \in DOMAIN props : props[i] = t})

\* what a change map has recorded for a node
RecordedFor(changes, d, n) ==
    IF d \in DOMAIN changes /\ n \in DOMAIN changes[d] THEN changes[d][n] ELSE <<>>

\* the properties of node n of DOM d that the call has changed: by the hover
\* and active restyle of a node that the cursor entered or left, by the focus
\* restyle of the old and the new focus node, by the CSS overrides
ChangedBy(input, d, n) ==
    LET nodes == input.nodes
        styled_node == input.layout_results[d + 1].styled_nodes[n]
        hovered == <<d, n>> \in Pairs(nodes.onmouseenter_nodes) \cup Pairs(nodes.onmouseleave_nodes)
        new_focus_node == IF IsSome(input.callbacks_new_focus)
                          THEN input.callbacks_new_focus[1] ELSE nodes.new_focus_node
        focus_moved == /\ nodes.old_focus_node /= new_focus_node
                       /\ Some(DomNodeId(d, Some(n))) \in {nodes.old_focus_node, new_focus_node}
        overrides == RecordedFor(input.css_changes, d, n)
        differing == SelectSeq(overrides, LAMBDA p : p.differs)
    IN  (IF hovered THEN styled_node.hover ELSE <<>>)
        \o (IF hovered /\ nodes.current_window_state_mouse_is_down
            THEN styled_node.active ELSE <<>>)
        \o (IF focus_moved THEN styled_node.focus ELSE <<>>)
        \o [i \in 1..Len(differing) |-> differing[i].type]

\* C35: every property that a hover, active or focus restyle or a CSS
\* override has changed is recorded once, in layout_changes if its type can
\* trigger a relayout and in style_changes if not.
C35_ChangedPropertyInExactlyOneMap ==
    IsSome(sal_ret) =>
        \A d \in DomIds, n \in NodeIds, t \in CssPropertyTypes :
            LET in_style == CountOf(RecordedFor(sal_ret[1].style_changes, d, n), t)
                in_layout == CountOf(RecordedFor(sal_ret[1].layout_changes, d, n), t)
            IN  /\ in_style + in_layout = CountOf(ChangedBy(sal_input, d, n), t)
                /\ in_layout > 0 => can_trigger_relayout(t)
                /\ in_style > 0 => ~can_trigger_relayout(t)

\* a node that the cursor entered while a button is down has properties of
\* both kinds recorded, and Width twice: by its hover and by its active restyle
C35_Witness ==
    /\ IsSome(sal_ret)
    /\ sal_input.nodes.current_window_state_mouse_is_down
    /\ \E d \in DomIds, n \in NodeIds :
           /\ <<d, n>> \in Pairs(sal_input.nodes.onmouseenter_nodes)
           /\ RecordedFor(sal_ret[1].layout_changes, d, n) = <<"Width", "Width">>
           /\ RecordedFor(sal_ret[1].style_changes, d, n) = <<"TextColor", "Opacity">>

\* C36: relayout_cb is called once for every DOM of layout_changes and for no
\* other DOM; nodes_that_changed_size has keys of layout_changes only; the
\* parent rectangle is the window rectangle at (0, 0) for a DOM without
\* parent and the static bounds of an iframe node of the parent that maps to
\* the DOM for a nested DOM.
C36_RelayoutOncePerChangedDom ==
    IsSome(sal_ret) =>
        LET r == sal_ret[1]
            results == sal_input.layout_results
        IN  /\ [i \in DOMAIN sal_relayout_calls |-> sal_relayout_calls[i].dom_id]
                   = SetToVec({d \in DOMAIN r.layout_changes : ~MapIsEmpty(r.layout_changes[d])})
            /\ DOMAIN r.nodes_that_changed_size \subseteq DOMAIN r.layout_changes
            /\ \A i \in DOMAIN sal_relayout_calls :
                   LET c == sal_relayout_calls[i]
                       parent_dom_id == results[c.dom_id + 1].parent_dom_id
                   IN  /\ c.relayout_nodes = r.layout_changes[c.dom_id]
                       /\ IsNone(parent_dom_id) =>
                              c.parent_rect = LayoutRect(LayoutPoint(0, 0), sal_input.window_size)
                       /\ IsSome(parent_dom_id) =>
                              \E k \in DOMAIN results[parent_dom_id[1] + 1].iframe_mapping :
                                  /\ results[parent_dom_id[1] + 1].iframe_mapping[k] = c.dom_id
                                  /\ c.parent_rect = get_approximate_static_bounds(
                                                         results[parent_dom_id[1] + 1].rects[k])

\* DOM 0 and the DOM nested in its node 1 are both laid out again, DOM 0 in
\* the window and the nested DOM in the rectangle of node 1; only one of them
\* reports nodes that changed size; a DOM with style changes only is not
\* laid out
C36_Witness ==
    /\ IsSome(sal_ret)
    /\ Len(sal_relayout_calls) = 2
    /\ sal_relayout_calls[1].dom_id = 0
    /\ sal_relayout_calls[1].parent_rect = LayoutRect(LayoutPoint(0, 0), LayoutSize(4, 3))
    /\ sal_relayout_calls[2].dom_id = 1
    /\ sal_input.layout_results[2].parent_dom_id = Some(0)
    /\ sal_relayout_calls[2].parent_rect = LayoutRect(LayoutPoint(2, 1), LayoutSize(2, 2))
    /\ DOMAIN sal_ret[1].nodes_that_changed_size = {1}

\* C31 (as stated): StyleAndLayoutChanges::new returns for every input, also
\* for a DOM id without layout result, a focus node whose node id is None and
\* a nested DOM that its parent has no iframe node for.
C31_NewNeverPanics == ~sal_panicked

-----------------------------------------------------------------------------
(* Properties of NodesToCheck::new *)

\* C6 (as stated): onmouseenter_nodes holds exactly the (dom, node) pairs of
\* new_hit_node_ids that are not in old_hit_node_ids, also for a DOM without
\* an entry in the previous frame's hovered nodes.
C6_EnterIsNewMinusOld ==
    frame > 0 =>
        Pairs(nodes_to_check.onmouseenter_nodes)
            = Pairs(nodes_to_check.new_hit_node_ids) \ Pairs(nodes_to_check.old_hit_node_ids)

\* C7: onmouseleave_nodes holds exactly the (dom, node) pairs of
\* old_hit_node_ids that are not in new_hit_node_ids; in a frame whose window
\* events contain MouseLeave new_hit_node_ids is empty, so every node hovered
\* in the previous frame is in onmouseleave_nodes.
C7_LeaveIsOldMinusNew ==
    frame > 0 =>
        /\ nodes_to_check.old_hit_node_ids = EventsOldHitNodeIds(events_input.previous)
        /\ Pairs(nodes_to_check.onmouseleave_nodes)
            = Pairs(nodes_to_check.old_hit_node_ids) \ Pairs(nodes_to_check.new_hit_node_ids)
        /\ "MouseLeave" \in events.window_events =>
            /\ nodes_to_check.new_hit_node_ids = EmptyHoveredNodes
            /\ Pairs(nodes_to_check.onmouseleave_nodes)
                = Pairs(EventsOldHitNodeIds(events_input.previous))

\* C7 witness: the cursor leaves the window while the hit test still reports a
\* hovered node, and the node hovered before is in onmouseleave_nodes.
C7_Witness ==
    /\ frame > 0
    /\ "MouseLeave" \in events.window_events
    /\ Pairs(hit_test.hovered_nodes) /= {}
    /\ Pairs(nodes_to_check.onmouseleave_nodes) /= {}

\* C8: in every frame, new_focus_node differs from old_focus_node only if the
\* frame's window events contain MouseDown or MouseUp; in every other frame
\* new_focus_node is the focused node of the previous window state, whatever
\* the hit test reports.
C8_FocusMovesOnlyOnMouseDownUp ==
    frame > 0 =>
        /\ nodes_to_check.old_focus_node = EventsOldFocusNode(events_input.previous)
        /\ nodes_to_check.new_focus_node /= nodes_to_check.old_focus_node =>
            ("MouseDown" \in events.window_events \/ "MouseUp" \in events.window_events)
        /\ ("MouseDown" \notin events.window_events /\ "MouseUp" \notin events.window_events) =>
            nodes_to_check.new_focus_node = EventsOldFocusNode(events_input.previous)

\* C8 witness: a frame without MouseDown and MouseUp in which the hit test
\* reports a focusable node other than the focused one, and the focus stays.
C8_Witness ==
    /\ frame > 1
    /\ "MouseDown" \notin events.window_events
    /\ "MouseUp" \notin events.window_events
    /\ IsSome(hit_test.focused_node)
    /\ IsSome(nodes_to_check.old_focus_node)
    /\ HitFocusToDomNodeId(hit_test.focused_node) /= nodes_to_check.old_focus_node
    /\ nodes_to_check.new_focus_node = nodes_to_check.old_focus_node

-----------------------------------------------------------------------------
(* Properties of StyleAndLayoutChanges *)

\* C4 (as stated): need_redraw() is true if and only if at least one of
\* style_changes, layout_changes, nodes_that_changed_size is non-empty.
C4_NeedRedrawIffAnyNonEmpty ==
    IsSome(need_redraw_ret) =>
        (need_redraw_ret[1] <=>
            (~MapIsEmpty(style_changes) \/ ~MapIsEmpty(layout_changes)
             \/ ~MapIsEmpty(nodes_that_changed_size)))

\* C5 (as stated): need_regenerate_display_list() is true if and only if
\* need_redraw() is true and at least one changed property is not a GPU-only
\* property; it is false when every change is GPU-only.
C5_RegenerateIffRedrawAndNotAllGpuOnly ==
    (IsSome(need_regenerate_ret) /\ IsSome(need_redraw_ret)) =>
        (need_regenerate_ret[1] <=>
            (/\ need_redraw_ret[1]
             /\ \E t \in ChangedProps(style_changes) \cup ChangedProps(layout_changes) :
                    ~is_gpu_only_property(t)))

-----------------------------------------------------------------------------
(* Properties of GpuValueCache::synchronize *)

GpuEventsOfLastSync ==
    {gpu_event_changes.transform_key_changes[i] :
        i \in DOMAIN gpu_event_changes.transform_key_changes}
    \cup {gpu_event_changes.opacity_key_changes[i] :
        i \in DOMAIN gpu_event_changes.opacity_key_changes}

\* C9 (as stated): the second of two synchronize() calls in a row, with no CSS
\* change in between, produces no transform and no opacity event.
C9_SecondSynchronizeEmitsNothing ==
    stable_syncs >= 2 => gpu_event_changes = NoGpuEventChanges

\* C10 (as stated): after synchronize(), the key of every Added event is
\* recorded in the cache for its node together with the value, every Changed
\* event carries the key recorded for its node, and the key and value of every
\* Removed event are erased from the cache.
C10_KeysFollowTheCache ==
    stable_syncs >= 1 =>
        /\ \A i \in DOMAIN gpu_event_changes.transform_key_changes :
            LET e == gpu_event_changes.transform_key_changes[i]
            IN  /\ e.kind \in {"Added", "Changed"} =>
                    /\ MapGet(gpu_value_cache.transform_keys, e.node) = Some(e.key)
                    /\ MapGet(gpu_value_cache.current_transform_values, e.node) = e.value
                /\ e.kind = "Removed" =>
                    /\ e.node \notin DOMAIN gpu_value_cache.transform_keys
                    /\ e.node \notin DOMAIN gpu_value_cache.current_transform_values
        /\ \A i \in DOMAIN gpu_event_changes.opacity_key_changes :
            LET e == gpu_event_changes.opacity_key_changes[i]
            IN  /\ e.kind \in {"Added", "Changed"} =>
                    /\ MapGet(gpu_value_cache.current_opacity_keys, e.node) = Some(e.key)
                    /\ MapGet(gpu_value_cache.current_opacity_values, e.node) = e.value
                /\ e.kind = "Removed" =>
                    /\ e.node \notin DOMAIN gpu_value_cache.current_opacity_keys
                    /\ e.node \notin DOMAIN gpu_value_cache.current_opacity_values

-----------------------------------------------------------------------------
(* Properties of CallbacksOfHitTest::call *)

\* the place in `invoked` of entry `i` of the Vec of `dom`, 0 if not invoked
InvokedAt(dom, i) ==
    IF \E k \in DOMAIN invoked : invoked[k].dom = dom /\ invoked[k].entry = i
    THEN CHOOSE k \in DOMAIN invoked : invoked[k].dom = dom /\ invoked[k].entry = i
    ELSE 0

DispatchPassed(di, pos) ==
    \/ call_cursor.dom_idx > di
    \/ call_cursor.dom_idx = di /\ call_cursor.pos > pos

\* C3: a callback in the dispatch order of a DOM is left out if and only if a
\* callback earlier in the dispatch order of the same DOM, with the same event
\* filter, was invoked and set stop_propagation; callbacks with another filter
\* and callbacks of other DOMs are invoked.
C3_StopPropagationBlocksSameFilterSameDom ==
    \A di \in 1..Len(DomsInOrder(nodes_with_callbacks)) :
        LET dom == DomsInOrder(nodes_with_callbacks)[di]
            vec == nodes_with_callbacks[dom]
            callbacks == CollectCallbacks(vec)
            order == DispatchOrder(layout_results[dom], callbacks)
        IN  \A pos \in DOMAIN order :
                DispatchPassed(di, pos) =>
                    ( InvokedAt(dom, callbacks[order[pos]]) /= 0
                      <=> ~ \E q \in 1..(pos - 1) :
                            LET k == InvokedAt(dom, callbacks[order[q]])
                            IN  /\ k /= 0
                                /\ invoked[k].stop_propagation
                                /\ invoked[k].event = vec[callbacks[order[pos]]].event )

\* a child's callback has stopped the propagation and the root's callback for
\* the same filter has been left out
C3_Witness ==
    /\ call_returned
    /\ \E k \in DOMAIN invoked :
        /\ invoked[k].stop_propagation
        /\ invoked[k].node_id /= 0
        /\ \E i \in DOMAIN nodes_with_callbacks[invoked[k].dom] :
            /\ nodes_with_callbacks[invoked[k].dom][i].node_id = 0
            /\ nodes_with_callbacks[invoked[k].dom][i].event = invoked[k].event
            /\ InvokedAt(invoked[k].dom, i) = 0

-----------------------------------------------------------------------------
(* Properties of determine_preferred_width / determine_preferred_height *)

\* the calls that have been made, as <<width, min, max, result>>
PreferredCalls ==
    (IF IsSome(preferred_width)
     THEN {<<rect_layout.width, rect_layout.min_width, rect_layout.max_width,
             preferred_width[1]>>}
     ELSE {})
    \cup (IF IsSome(preferred_height)
          THEN {<<rect_layout.height, rect_layout.min_height, rect_layout.max_height,
                  preferred_height[1]>>}
          ELSE {})

\* w clamped to [min, max], both bounds collapsed to max when min > max; an
\* absent bound does not clamp
ClampToBounds(w, min, max) ==
    LET lo == IF IsSome(min) /\ IsSome(max) /\ min[1] > max[1] THEN max ELSE min
        capped == IF IsSome(max) /\ w > max[1] THEN max[1] ELSE w
    IN  IF IsSome(lo) /\ capped < lo[1] THEN lo[1] ELSE capped

\* C11 (as stated): with width = Some(w) the result is EqualTo(w clamped to
\* [min, max]), the inputs w = min and w = max included.
C11_WidthGivesEqualToClamped ==
    \A call \in PreferredCalls :
        IsSome(call[1]) => call[4] = EqualTo(ClampToBounds(call[1][1], call[2], call[3]))

\* C12: with width = None the result is Unconstrained iff min and max are both
\* absent; otherwise it is Between(lo, hi) with lo = min (0 when absent),
\* hi = max (f32::MAX when absent), and (max, max) when min > max.
C12_NoWidthGivesBetween ==
    \A call \in PreferredCalls :
        IsNone(call[1]) =>
            LET min == call[2]
                max == call[3]
                inverted == IsSome(min) /\ IsSome(max) /\ min[1] > max[1]
                lo == IF inverted THEN max[1] ELSE IF IsSome(min) THEN min[1] ELSE 0
                hi == IF IsSome(max) THEN max[1] ELSE F32Max
            IN  /\ call[4].tag = "Unconstrained" <=> (IsNone(min) /\ IsNone(max))
                /\ call[4].tag /= "Unconstrained" =>
                    /\ call[4].tag = "Between"
                    /\ call[4].min = lo
                    /\ call[4].max = hi

\* a call without a width and with min > max has returned Between(max, max)
C12_Witness ==
    \E call \in PreferredCalls :
        /\ IsNone(call[1])
        /\ IsSome(call[2]) /\ IsSome(call[3]) /\ call[2][1] > call[3][1]
        /\ call[4] = Between(call[3][1], call[3][1], "Min")

\* C13 (as stated): with no width and min > max the result is EqualTo(max).
C13_InvertedGivesEqualTo ==
    \A call \in PreferredCalls :
        (IsNone(call[1]) /\ IsSome(call[2]) /\ IsSome(call[3]) /\ call[2][1] > call[3][1])
        => call[4] = EqualTo(call[3][1])

\* C13 (amended): with no width and min > max the function returns, for every
\* such input, Between(max, max, Min), whose lower and upper bound are max.
C13_InvertedGivesBetweenMaxMax ==
    \A call \in PreferredCalls :
        (IsNone(call[1]) /\ IsSome(call[2]) /\ IsSome(call[3]) /\ call[2][1] > call[3][1])
        => /\ call[4] = Between(call[3][1], call[3][1], "Min")
           /\ min_needed_space(call[4]) = call[3][1]
           /\ max_available_space(call[4]) = call[3][1]

\* both functions have been applied to a layout whose min_width exceeds its
\* max_width by the most the values allow, with no width
C13_Witness ==
    /\ IsSome(preferred_width) /\ IsSome(preferred_height)
    /\ rect_layout.width = None
    /\ rect_layout.min_width = Some(MaxPx)
    /\ rect_layout.max_width = Some(1)
    /\ preferred_width[1].tag = "Between"

\* C14 (as stated): for a fixed width and max, a smaller min never gives a
\* larger min_needed_space than the min that the function was called with.
C14_MonotoneInMin ==
    \A call \in PreferredCalls :
        IsSome(call[2]) =>
            \A min1 \in Pixels :
                min1 <= call[2][1] =>
                    min_needed_space(determine_preferred(call[1], Some(min1), call[3]))
                        <= min_needed_space(call[4])

\* C15 (as stated): every Between(min, max) that is returned has 0 <= min <= max.
C15_BetweenIsOrderedAndNonNegative ==
    \A call \in PreferredCalls :
        call[4].tag = "Between" => (0 <= call[4].min /\ call[4].min <= call[4].max)

-----------------------------------------------------------------------------
(* Properties of the result of CallbacksOfHitTest::call *)

\* DoNothing < RegenerateStyledDomForCurrentWindow < RegenerateStyledDomForAllWindows
UpdateScreenRank(u) ==
    IF u = "DoNothing" THEN 0
    ELSE IF u = "RegenerateStyledDomForCurrentWindow" THEN 1
    ELSE 2

\* the largest value of a set of UpdateScreen values, DoNothing if it is empty
MaxUpdateScreen(S) ==
    IF S = {} THEN "DoNothing"
    ELSE CHOOSE u \in S : \A v \in S : UpdateScreenRank(v) <= UpdateScreenRank(u)

\* C16: callbacks_update_screen is the maximum, in the order DoNothing <
\* ForCurrentWindow < ForAllWindows, of the values that the invoked callbacks
\* have returned (DoNothing if none has run), whatever the order they were
\* returned in; in particular when call() has returned.
C16_UpdateScreenIsMaximum ==
    ret.callbacks_update_screen
        = MaxUpdateScreen({invoked[k].ret : k \in DOMAIN invoked})

\* call() has returned after a callback returned ForAllWindows and a later one
\* returned ForCurrentWindow
C16_Witness ==
    /\ call_returned
    /\ ret.callbacks_update_screen = "RegenerateStyledDomForAllWindows"
    /\ \E i, j \in DOMAIN invoked :
        /\ i < j
        /\ invoked[i].ret = "RegenerateStyledDomForAllWindows"
        /\ invoked[j].ret = "RegenerateStyledDomForCurrentWindow"

\* C17 (as stated): when the focus target that the callbacks leave is a node
\* id that does not resolve to a node, call() returns update_focused_node =
\* None (the focused node is kept), also when a node is focused.
C17_UnresolvedTargetKeepsFocus ==
    ( /\ call_returned
      /\ IsSome(new_focus_target)
      /\ new_focus_target[1].kind = "Id"
      /\ ResolveFocusTarget(new_focus_target, layout_results) = None )
    => ret.update_focused_node = None

\* C18 (as stated): update_focused_node is Some(..) only if the callbacks moved
\* the focus to a node other than full_window_state.focused_node, and it is
\* None when no invoked callback has set a focus target, also when a node is
\* focused.
C18_FocusUpdateOnlyWhenMoved ==
    call_returned =>
        /\ IsSome(ret.update_focused_node) =>
            /\ IsSome(ResolveFocusTarget(new_focus_target, layout_results))
            /\ ResolveFocusTarget(new_focus_target, layout_results) /= call_focused_node
        /\ IsNone(new_focus_target) => ret.update_focused_node = None

\* the nodes that the callbacks asked to scroll and that are registered as
\* overflowing scroll nodes of their DOM
RequestedScrollNodes ==
    {k \in DOMAIN nodes_scrolled_in_callbacks :
        /\ k[1] \in DOMAIN layout_results
        /\ k[2] \in layout_results[k[1]].overflowing_nodes}

\* C32 (as stated): while call() has not returned the mutable ScrollStates are
\* as they were on entry; when call() has returned they hold exactly the
\* positions requested for registered overflowing scroll nodes, and
\* should_scroll_render is true if and only if at least one requested node is
\* a registered overflowing scroll node.
C32_ScrollsAppliedAfterLastCallback ==
    /\ ~call_returned => modifiable_scroll_states = EmptyScrollMap
    /\ ~call_returned => ~ret.should_scroll_render
    /\ call_returned =>
        /\ ret.should_scroll_render <=> RequestedScrollNodes /= {}
        /\ DOMAIN modifiable_scroll_states = RequestedScrollNodes
        /\ \A k \in RequestedScrollNodes :
            modifiable_scroll_states[k] = nodes_scrolled_in_callbacks[k]

\* the same statement for the calls in which every DOM with scheduled
\* callbacks has a layout result
ScrollsAppliedWhenEveryDomIsLaidOut ==
    (DOMAIN nodes_with_callbacks \subseteq DOMAIN layout_results)
        => C32_ScrollsAppliedAfterLastCallback

\* call() has returned through the missing layout result of a DOM after a
\* callback of an earlier DOM asked to scroll an overflowing node
ScrollRequestDropped ==
    /\ call_returned
    /\ call_cursor.aborted
    /\ RequestedScrollNodes /= {}

\* the place of `node` in the dispatch order of `dom`
ReachedAt(dom, node) ==
    LET order == DispatchOrder(layout_results[dom],
                               CollectCallbacks(nodes_with_callbacks[dom]))
    IN  CHOOSE pos \in DOMAIN order : order[pos] = node

\* the event filters of `dom` that are blacklisted when `node` is reached:
\* those of the callbacks that were invoked on the nodes reached before it
\* and set stop_propagation
BlacklistedWhenReached(dom, node) ==
    {invoked[k].event : k \in {m \in DOMAIN invoked :
        /\ invoked[m].dom = dom
        /\ invoked[m].stop_propagation
        /\ ReachedAt(dom, invoked[m].node_id) < ReachedAt(dom, node)}}

\* C38 (as stated): when call() has returned, every entry of the Vec of a DOM
\* whose event filter was not blacklisted when its node was reached has been
\* invoked exactly once, also when its node has several entries with
\* different event filters; and in every DOM the callbacks of the root are
\* invoked after all callbacks of the other nodes.
C38_EveryScheduledEntryInvokedOnce ==
    /\ call_returned =>
        \A dom \in DOMAIN nodes_with_callbacks :
            \A i \in DOMAIN nodes_with_callbacks[dom] :
                LET entry == nodes_with_callbacks[dom][i]
                IN  entry.event \notin BlacklistedWhenReached(dom, entry.node_id)
                    => Cardinality({k \in DOMAIN invoked :
                                      invoked[k].dom = dom /\ invoked[k].entry = i}) = 1
    /\ \A j, k \in DOMAIN invoked :
        ( /\ invoked[j].dom = invoked[k].dom
          /\ invoked[j].node_id = 0
          /\ invoked[k].node_id /= 0 ) => k < j

\* the same statement for the entries that the per-node map of lines 618-621
\* keeps: the last entry of every node
LastEntryOfNodeInvokedOnce ==
    /\ call_returned =>
        \A dom \in DOMAIN nodes_with_callbacks :
            \A i \in DOMAIN nodes_with_callbacks[dom] :
                LET entry == nodes_with_callbacks[dom][i]
                IN  ( /\ CollectCallbacks(nodes_with_callbacks[dom])[entry.node_id] = i
                      /\ entry.event \notin BlacklistedWhenReached(dom, entry.node_id) )
                    => Cardinality({k \in DOMAIN invoked :
                                      invoked[k].dom = dom /\ invoked[k].entry = i}) = 1
    /\ \A j, k \in DOMAIN invoked :
        ( /\ invoked[j].dom = invoked[k].dom
          /\ invoked[j].node_id = 0
          /\ invoked[k].node_id /= 0 ) => k < j

\* call() has returned without invoking the MouseDown callback of a node that
\* also has a MouseUp callback, though no callback stopped the propagation
EarlierEntryOfNodeNotInvoked ==
    /\ call_returned
    /\ \A k \in DOMAIN invoked : ~invoked[k].stop_propagation
    /\ \E dom \in DOMAIN nodes_with_callbacks :
        \E i, j \in DOMAIN nodes_with_callbacks[dom] :
            /\ i < j
            /\ nodes_with_callbacks[dom][i].node_id = nodes_with_callbacks[dom][j].node_id
            /\ nodes_with_callbacks[dom][i].event /= nodes_with_callbacks[dom][j].event
            /\ InvokedAt(dom, i) = 0
            /\ InvokedAt(dom, j) /= 0

-----------------------------------------------------------------------------
(* Properties of DomSolver *)

\* C34: the root width and the root height variable of a DomSolver are edit
\* variables of its solver after DomSolver::new and after every sequence of
\* DomSolver methods (clear_all_constraints included, also one that failed),
\* and no call of update_window_size, with any size, has failed.
C34_RootVariablesStayEditVariables ==
    /\ {ds_root_constraints.width_var, ds_root_constraints.height_var}
           \subseteq DOMAIN ds_solver.edits
    /\ "update_window_size" \notin ds_panicked
    /\ "new" \notin ds_panicked

\* update_window_size has been called right after clear_all_constraints on a
\* solver that holds constraints, and the solver holds the suggested size
C34_Witness ==
    /\ ds_last_calls = <<"clear_all_constraints", "update_window_size">>
    /\ ds_panicked = {}
    /\ ds_solver.cns /= {}
    /\ ds_added_constraints = NoAddedConstraints
    /\ ds_solver.edits[ds_root_constraints.width_var] = 2
    /\ ds_solver.edits[ds_root_constraints.height_var] = 1

\* C37 (as stated): every call of clear_all_constraints, after any sequence
\* of push_added_constraints and insert_css_constraints calls, returns
\* without a panic, leaves none of the recorded constraints in the solver,
\* leaves added_constraints empty and leaves the edit variables registered.
C37_ClearAllConstraintsNeverFails ==
    [][ClearAllConstraints =>
        /\ "clear_all_constraints" \notin ds_panicked'
        /\ \A i \in DOMAIN RecordedConstraints(ds_added_constraints) :
               RecordedConstraints(ds_added_constraints)[i] \notin ds_solver'.cns
        /\ ds_added_constraints' = NoAddedConstraints
        /\ DOMAIN ds_solver'.edits = DOMAIN ds_solver.edits]_vars

\* the same statement for the calls in which every recorded constraint is
\* recorded once and is held by the solver
ClearAllConstraintsOfHeldConstraints ==
    [][( /\ ClearAllConstraints
         /\ LET recorded == RecordedConstraints(ds_added_constraints)
            IN  /\ \A i \in DOMAIN recorded : recorded[i] \in ds_solver.cns
                /\ \A i, j \in DOMAIN recorded : i /= j => recorded[i] /= recorded[j] )
       => /\ ds_panicked' = ds_panicked
          /\ \A i \in DOMAIN RecordedConstraints(ds_added_constraints) :
                 RecordedConstraints(ds_added_constraints)[i] \notin ds_solver'.cns
          /\ ds_added_constraints' = NoAddedConstraints
          /\ DOMAIN ds_solver'.edits = DOMAIN ds_solver.edits]_vars

\* clear_all_constraints has panicked on a constraint that was recorded and
\* never handed to the solver
ClearAllConstraintsPanicked ==
    /\ "clear_all_constraints" \in ds_panicked
    /\ "insert_css_constraints" \notin ds_panicked
    /\ ds_solver.cns = {}
    /\ ds_added_constraints /= NoAddedConstraints

=============================================================================
